---- MODULE Spec2Model ----
(***************************************************************************)
(* A model of the interactive manipulation engine of goki/grid:            *)
(*   - the path node model (PathNodes, PathNodeSetPoint,                   *)
(*     PathNodeSetOnePoint) of src/grid/path.go,                           *)
(*   - the snapping functions (SnapToPt, SnapToIncr, SnapCurBBox),         *)
(*   - the action lifecycle (ManipStart, ManipDone) and the drag           *)
(*     controllers (DragMove, SpriteReshapeDrag, SpriteRotateDrag,         *)
(*     SpriteNodeDrag).                                                    *)
(* Coordinates are integers (window pixels / local units); vectors are     *)
(* pairs <<x, y>>.  The parent transform of a path is the identity, so a   *)
(* window-space delta is the same local-space delta.                       *)
(***************************************************************************)
EXTENDS Integers, Sequences, FiniteSets, TLC

VARIABLES
    \* ---- path node model -------------------------------------------------
    Data,        \* path.Data: the flat command / operand stream of the path
    PathNodes,   \* es.PathNodes: the decomposition last computed
    preData,     \* history: path.Data before the last edit
    preNodes,    \* history: the decomposition the last edit started from
    edit,        \* history: the last path operation and its arguments
    \* ---- snapping functions ----------------------------------------------
    snapArgs,    \* the arguments of the function call: <<val, snap, tolRef>>
                 \* of SnapToPt, <<wd, ht, un>> of MatchStdSize
    snapRes,     \* its result (<<value, snapped>> of SnapToPt, the standard
                 \* size of MatchStdSize), or "none" before the call
    Prefs,       \* the preferences (the Prefs singleton) and the grid spacing
    \* ---- action lifecycle and drag controllers ---------------------------
    sv,          \* the SVGView: its EditState es, the undo stack UndoMgr, the
                 \* geometry Geom of the selected items, and the history Trace
                 \* of the steps taken since the last mouse press
    drag,        \* the sprite being dragged since the last mouse press
    Siblings     \* the bounding boxes of the non-selected elements

pathVars == <<Data, PathNodes, preData, preNodes, edit>>
snapVars == <<snapArgs, snapRes, Prefs>>
manipVars == <<sv, drag, Siblings>>
vars == <<Data, PathNodes, preData, preNodes, edit, snapArgs, snapRes, Prefs,
          sv, drag, Siblings>>

-----------------------------------------------------------------------------
(* Vectors (mat32.Vec2)                                                    *)

Abs(x) == IF x < 0 THEN -x ELSE x
Min2(a, b) == IF a < b THEN a ELSE b
Max2(a, b) == IF a > b THEN a ELSE b

VAdd(a, b) == <<a[1] + b[1], a[2] + b[2]>>
VSub(a, b) == <<a[1] - b[1], a[2] - b[2]>>
VNeg(a) == <<-a[1], -a[2]>>
Zero2 == <<0, 0>>

-----------------------------------------------------------------------------
(* Path data (svg.PathData): a flat sequence whose elements are either a   *)
(* command header (cmd, n = number of operands that follow) or an operand  *)
(* (cmd = "", value v).  Indexes of the Go code are 0-based: element i of  *)
(* the Go slice is Data[i + 1] here.                                       *)

PcErr == "Err"
AbsCmds == {"M", "L", "H", "V"}
RelCmds == {"m", "l", "h", "v"}
MoveCmds == {"M", "m"}
CloseCmds == {"Z", "z"}
LineCmds == {"L", "l", "H", "h", "V", "v"}

\* svg.PathCmdIsRel: the lower-case commands are relative
PathCmdIsRel(cmd) == cmd \in RelCmds \cup {"z"}

\* number of operands of one point of the command
CmdArity(cmd) == IF cmd \in {"H", "h", "V", "v"} THEN 1 ELSE 2

CmdElem(c, n) == [cmd |-> c, n |-> n, v |-> 0]
NumElem(x) == [cmd |-> "", n |-> 0, v |-> x]

\* the current point after reading the operands of one point at 0-based
\* index i, cp being the current point before (PathDataNextPt / NextRel)
NextCp(data, i, cp, cmd) ==
    CASE cmd \in {"M", "L"} -> <<data[i + 1].v, data[i + 2].v>>
      [] cmd \in {"m", "l"} -> <<cp[1] + data[i + 1].v, cp[2] + data[i + 2].v>>
      [] cmd = "H" -> <<data[i + 1].v, cp[2]>>
      [] cmd = "h" -> <<cp[1] + data[i + 1].v, cp[2]>>
      [] cmd = "V" -> <<cp[1], data[i + 1].v>>
      [] cmd = "v" -> <<cp[1], cp[2] + data[i + 1].v>>

RECURSIVE IterPts(_, _, _, _, _, _)
RECURSIVE IterCmds(_, _, _)

\* the points np .. npts-1 of the command cmd, whose operands start at i
IterPts(data, i, cp, cmd, np, npts) ==
    IF np >= npts
    THEN IterCmds(data, i, cp)
    ELSE LET ncp == NextCp(data, i, cp, cmd)
         IN  <<[idx |-> i, cmd |-> cmd, ptIdx |-> np, cp |-> ncp]>>
             \o IterPts(data, i + CmdArity(cmd), ncp, cmd, np + 1, npts)

\* the commands from 0-based index i on
IterCmds(data, i, cp) ==
    IF i >= Len(data)
    THEN <<>>
    ELSE LET c == data[i + 1]
         IN  IterPts(data, i + 1, cp, c.cmd, 0, c.n \div CmdArity(c.cmd))

\* svg.PathDataIterFunc: the sequence of callbacks (idx, cmd, ptIdx, cp),
\* cp being the resolved absolute current point
PathDataIterFunc(data) == IterCmds(data, 0, Zero2)

-----------------------------------------------------------------------------
(* PathNode and the decomposition of a path                                *)

\* sv.WinBBox.Min, the window offset of the view
SvOff == Zero2

\* index of the last callback j <= k that starts a command (ptIdx = 0)
RECURSIVE LastCmdStart(_, _)
LastCmdStart(cbs, k) ==
    IF k = 0 THEN 0
    ELSE IF cbs[k].ptIdx = 0 THEN k ELSE LastCmdStart(cbs, k - 1)

\* SVGView.PathNodes: one PathNode per point, in traversal order
PathNodesOf(data) ==
    LET cbs == PathDataIterFunc(data)
    IN  [k \in 1..Len(cbs) |->
            [Cmd |-> cbs[k].cmd,
             PrevCmd |-> IF k = 1 THEN PcErr ELSE cbs[k - 1].cmd,
             CmdIdx |-> IF LastCmdStart(cbs, k) = 0 THEN 0
                        ELSE cbs[LastCmdStart(cbs, k)].idx - 1,
             Idx |-> cbs[k].idx,
             PtIdx |-> cbs[k].ptIdx,
             PCp |-> IF k = 1 THEN Zero2 ELSE cbs[k - 1].cp,
             Cp |-> cbs[k].cp,
             WinPt |-> VAdd(cbs[k].cp, SvOff)]]

\* the list of indexes where commands start (second result of PathNodes)
PathCmdsOf(data) ==
    LET cbs == PathDataIterFunc(data)
    IN  SelectSeq([k \in 1..Len(cbs) |-> IF cbs[k].ptIdx = 0 THEN cbs[k].idx - 1 ELSE -1],
                  LAMBDA x : x >= 0)

\* path.Data[i] = x (0-based i)
SetData(data, i, x) == [data EXCEPT ![i + 1] = NumElem(x)]

\* a variant that always stores the absolute value
PathNodeSetPoint_AlwaysAbs(data, pn, npt) ==
    CASE pn.Cmd \in {"H", "h"} -> SetData(data, pn.Idx, npt[1])
      [] pn.Cmd \in {"V", "v"} -> SetData(data, pn.Idx, npt[2])
      [] OTHER -> SetData(SetData(data, pn.Idx, npt[1]), pn.Idx + 1, npt[2])

\* a variant that stores both coordinates for every command
PathNodeSetPoint_BothSlots(data, pn, npt) ==
    IF pn.Idx = 1 \/ ~PathCmdIsRel(pn.Cmd)
    THEN SetData(SetData(data, pn.Idx, npt[1]), pn.Idx + 1, npt[2])
    ELSE SetData(SetData(data, pn.Idx, npt[1] - pn.PCp[1]),
                 pn.Idx + 1, npt[2] - pn.PCp[2])

\* SVGView.PathNodeSetPoint: npt is the new absolute (local) point of pn
PathNodeSetPoint(data, pn, npt) ==
    IF pn.Idx = 1 \/ ~PathCmdIsRel(pn.Cmd)
    THEN CASE pn.Cmd = "H" -> SetData(data, pn.Idx, npt[1])
           [] pn.Cmd = "V" -> SetData(data, pn.Idx, npt[2])
           [] OTHER -> SetData(SetData(data, pn.Idx, npt[1]), pn.Idx + 1, npt[2])
    ELSE CASE pn.Cmd = "h" -> SetData(data, pn.Idx, npt[1] - pn.PCp[1])
           [] pn.Cmd = "v" -> SetData(data, pn.Idx, npt[2] - pn.PCp[2])
           [] OTHER -> SetData(SetData(data, pn.Idx, npt[1] - pn.PCp[1]),
                               pn.Idx + 1, npt[2] - pn.PCp[2])

\* path.DeltaTransform(dv, (1,1), 0, pt) applied to cp with MulVec2AsPtCtr:
\* a pure translation; the parent transform is the identity
DeltaXFormPt(cp, dv) == VAdd(cp, dv)

\* the loop of PathNodeSetOnePoint from 0-based index i on
RECURSIVE SetOneLoop(_, _, _, _, _)
SetOneLoop(data, pts, pidx, i, dv) ==
    IF i >= Len(pts)
    THEN data
    ELSE LET pn == pts[i + 1]
             npt == DeltaXFormPt(pn.Cp, dv)
             nd == PathNodeSetPoint(data, pn, npt)
         IN  IF i = pidx
             THEN SetOneLoop(nd, pts, pidx, i + 1, VNeg(dv))
             ELSE IF ~PathCmdIsRel(pn.Cmd) \/ pn.Cmd \in CloseCmds \/ pn.Cmd \in MoveCmds
                  THEN nd
                  ELSE SetOneLoop(nd, pts, pidx, i + 1, dv)

\* a variant of the loop that stops before it writes the node that ends
\* the compensation
RECURSIVE SetOneLoop_StopBefore(_, _, _, _, _)
SetOneLoop_StopBefore(data, pts, pidx, i, dv) ==
    IF i >= Len(pts)
    THEN data
    ELSE LET pn == pts[i + 1]
             npt == DeltaXFormPt(pn.Cp, dv)
             nd == PathNodeSetPoint(data, pn, npt)
         IN  IF i = pidx
             THEN SetOneLoop_StopBefore(nd, pts, pidx, i + 1, VNeg(dv))
             ELSE IF ~PathCmdIsRel(pn.Cmd) \/ pn.Cmd \in CloseCmds \/ pn.Cmd \in MoveCmds
                  THEN data
                  ELSE SetOneLoop_StopBefore(nd, pts, pidx, i + 1, dv)

PathNodeSetOnePoint_StopBefore(data, pts, pidx, dv) ==
    SetOneLoop_StopBefore(data, pts, pidx, pidx, dv)

\* a variant without the compensation of the following nodes
PathNodeSetOnePoint_NoComp(data, pts, pidx, dv) ==
    PathNodeSetPoint(data, pts[pidx + 1], DeltaXFormPt(pts[pidx + 1].Cp, dv))

\* SVGView.PathNodeSetOnePoint
PathNodeSetOnePoint(data, pts, pidx, dv) == SetOneLoop(data, pts, pidx, pidx, dv)

-----------------------------------------------------------------------------
(* Preferences and the snapping functions                                  *)

\* Preferences.Defaults: the snap settings, and the grid spacing of the
\* drawing (GridView.Prefs.Grid) in pixels at zoom 1
SnapTolDefault == 3
DefaultPrefs ==
    [SnapTol |-> SnapTolDefault, SnapGrid |-> TRUE, SnapGuide |-> TRUE,
     SnapNodes |-> TRUE, Grid |-> 1]

\* a variant that also snaps at a distance equal to the tolerance
SnapToPt_Inclusive(val, snap, tolRef) ==
    IF Abs(val - snap) <= Prefs.SnapTol * tolRef THEN <<snap, TRUE>> ELSE <<val, FALSE>>

\* SnapToPt: snap val to the snap point if nearer than SnapTol * tolRef
SnapToPt(val, snap, tolRef) ==
    LET tol == Prefs.SnapTol
        d == Abs(val - snap)
    IN  IF d < tol * tolRef THEN <<snap, TRUE>> ELSE <<val, FALSE>>

-----------------------------------------------------------------------------
(* Bounding boxes (mat32.Box2) in window coordinates.  The coordinates of  *)
(* boxes, deltas and positions are fixed-point numbers in half pixels, so  *)
(* that the centre of a box of odd size is exact: Px(n) is n pixels.       *)

Px(n) == 2 * n
PxV(p) == <<Px(p[1]), Px(p[2])>>

Box(minx, miny, maxx, maxy) == [Min |-> <<minx, miny>>, Max |-> <<maxx, maxy>>]
PxBox(minx, miny, maxx, maxy) == Box(Px(minx), Px(miny), Px(maxx), Px(maxy))
EmptyBox == Box(0, 0, 0, 0)
BoxSize(bb) == VSub(bb.Max, bb.Min)

\* BBoxPoints: the six alignment anchors, in the order of the enum
BBoxPointsOrder == <<"BBLeft", "BBCenter", "BBRight", "BBTop", "BBMiddle", "BBBottom">>
BBoxPointsN == "BBoxPointsN"

\* BBoxPoints.ValBox: the coordinate of the anchor in the box
ValBox(ap, bb) ==
    CASE ap = "BBLeft" -> bb.Min[1]
      [] ap = "BBCenter" -> (bb.Min[1] + bb.Max[1]) \div 2
      [] ap = "BBRight" -> bb.Max[1]
      [] ap = "BBTop" -> bb.Min[2]
      [] ap = "BBMiddle" -> (bb.Min[2] + bb.Max[2]) \div 2
      [] ap = "BBBottom" -> bb.Max[2]

\* BBoxPoints.MoveDelta: move the whole box by delta along the anchor's axis
MoveDelta(ap, bb, delta) ==
    CASE ap \in {"BBLeft", "BBCenter", "BBRight"} ->
            Box(bb.Min[1] + delta, bb.Min[2], bb.Max[1] + delta, bb.Max[2])
      [] ap \in {"BBTop", "BBMiddle", "BBBottom"} ->
            Box(bb.Min[1], bb.Min[2] + delta, bb.Max[1], bb.Max[2] + delta)
      [] OTHER -> bb

\* SVGView.GridDots: the grid spacing in dots; the zoom factor is 1
GridDots ==
    LET grid == IF Prefs.Grid <= 0 THEN 12 ELSE Prefs.Grid
    IN  Px(grid)

\* SVGView.GatherAlignPoints: per anchor, the anchor's coordinate of every
\* non-selected element
GatherAlignPoints(es) ==
    [es EXCEPT !.AlignPts =
        [ap \in {BBoxPointsOrder[i] : i \in 1..6} |->
            [k \in 1..Len(Siblings) |-> ValBox(ap, Siblings[k])]]]

\* the candidates of SnapCurBBox in the order of its two loops:
\* <<anchor, candidate, the anchor's value of the current box>>
RECURSIVE SnapCands(_, _)
SnapCands(es, a) ==
    IF a > 6 THEN <<>>
    ELSE LET ap == BBoxPointsOrder[a]
             bbp == ValBox(ap, es.DragSelCurBBox)
             pts == es.AlignPts[ap]
         IN  [k \in 1..Len(pts) |-> <<ap, pts[k], bbp>>] \o SnapCands(es, a + 1)

\* a variant that takes the first candidate in loop order, not the closest
Closest_FirstCand(cands) ==
    IF cands = <<>> THEN <<BBoxPointsN, 0, 0>> ELSE cands[1]

\* the closest candidate: the first one, in loop order, of least distance
\* (dst < clDst is strict); <<BBoxPointsN, 0, 0>> when there is none
Closest(cands) ==
    IF cands = <<>> THEN <<BBoxPointsN, 0, 0>>
    ELSE LET dst(k) == Abs(cands[k][2] - cands[k][3])
             best == CHOOSE k \in 1..Len(cands) :
                        /\ \A j \in 1..Len(cands) : dst(k) <= dst(j)
                        /\ \A j \in 1..(k - 1) : dst(j) > dst(k)
         IN  cands[best]

\* SVGView.SnapCurBBox(move): es with the effective box DragSelEffBBox set
SnapCurBBox(es, move) ==
    LET eff0 == es.DragSelCurBBox
        grinc == GridDots
        cl == Closest(SnapCands(es, 1))
        clPt == cl[1]
        clVal == cl[2]
        bbval == cl[3]
        res == SnapToPt(bbval, clVal, grinc)
        eff1 == IF Prefs.SnapGuide /\ res[2] /\ move
                THEN MoveDelta(clPt, eff0, res[1] - bbval)
                ELSE eff0
        \* if !snapped && Prefs.SnapGrid: nothing is done (a todo in the code)
    IN  [es EXCEPT !.DragSelEffBBox = eff1]

-----------------------------------------------------------------------------
(* EditState and the action lifecycle.  A state s of the view is a record  *)
(* [es, UndoMgr, Geom, Trace, Starts, Saved, Upd, Win].                    *)

\* the selected items, and es.SelectedNamesString()
Selected == {"item1"}
SelectedNamesString == "item1"

\* the delta transform applied to the InitGeom of an item: translation del,
\* scale sc = scNum / scDen per axis, rotation rot (in half degrees), about pt
XForm(del, scNum, scDen, rot, pt) ==
    [del |-> del, scNum |-> scNum, scDen |-> scDen, rot |-> rot, pt |-> pt]
IdentXForm == XForm(Zero2, <<1, 1>>, <<1, 1>>, 0, Zero2)

InitEditState ==
    [Action |-> "", ActData |-> "", ActLock |-> FALSE,
     DragStartPos |-> Zero2, DragCurPos |-> Zero2,
     DragSelStartBBox |-> EmptyBox, DragSelCurBBox |-> EmptyBox,
     DragSelEffBBox |-> EmptyBox, NNodeSprites |-> 0,
     \* the active path ("" is nil) and the indexes of its commands, which
     \* the calls of the node sprite specification follow
     ActivePath |-> "", PathCmds |-> <<>>,
     AlignPts |-> [ap \in {BBoxPointsOrder[i] : i \in 1..6} |-> <<>>]]

InitSv ==
    [es |-> InitEditState, UndoMgr |-> <<>>,
     Geom |-> [itm \in Selected |-> IdentXForm],
     \* history: the steps since the last press, and the names given to
     \* ManipStart and the number of checkpoints since the last ManipDone
     Trace |-> <<>>, Starts |-> <<>>, Saved |-> 0,
     \* the ManipUpdate goroutines, in the order of their start: each is
     \* "start", "checked" (IsRendering was false), "rendering" (its
     \* UpdateSig is in flight), "dropped" or "done"
     Upd |-> <<>>,
     \* the sprites of the window of the view
     Win |-> <<>>]

\* the history of steps: pairs <<step, argument>>
Log(s, step, arg) == [s EXCEPT !.Trace = Append(@, <<step, arg>>)]

\* go sv.ManipUpdate(): a new goroutine, which has not run yet
GoManipUpdate(s) == Log([s EXCEPT !.Upd = Append(@, "start")], "GoManipUpdate", "")

\* sv.IsRendering(): a refresh of the view is in flight
IsRendering(s) == \E i \in 1..Len(s.Upd) : s.Upd[i] = "rendering"

\* ManipUpdate, goroutine i: if sv.IsRendering() { return }
ManipUpdateCheck(s, i) ==
    [s EXCEPT !.Upd[i] = IF IsRendering(s) THEN "dropped" ELSE "checked"]

\* ManipUpdate, goroutine i: sv.UpdateSig() starts the refresh
ManipUpdateSig(s, i) ==
    [s EXCEPT !.Upd[i] = IF @ = "checked" THEN "rendering" ELSE @]

\* the refresh that goroutine i started is complete
ManipUpdateDone(s, i) == [s EXCEPT !.Upd[i] = "done"]

\* EditState.InAction
InAction(es) == es.Action # ""

\* a variant that starts the action even when one is active
ActStart_Overwrite(es, act, data) ==
    [es EXCEPT !.ActLock = TRUE, !.Action = act, !.ActData = data]

\* EditState.ActStart: rejected when an action is active; otherwise the
\* lock flag is set and the action recorded
ActStart(es, act, data) ==
    IF es.Action # "" \/ es.ActLock
    THEN es
    ELSE [es EXCEPT !.ActLock = TRUE, !.Action = act, !.ActData = data]

\* EditState.ActUnlock
ActUnlock(es) == [es EXCEPT !.ActLock = FALSE]

\* EditState.ActDone
ActDone(es) == [es EXCEPT !.Action = "", !.ActData = ""]

\* EditState.DragReset: the drag anchors are cleared
DragReset(es) == [es EXCEPT !.DragStartPos = Zero2, !.DragCurPos = Zero2]

\* SVGView.UndoSave: push a checkpoint of the document tagged (act, data)
UndoSave(s, act, data) ==
    Log([s EXCEPT !.UndoMgr = Append(@, <<act, data>>), !.Saved = @ + 1],
        "UndoSave", act)

\* a variant that sets the action itself instead of calling ActStart
ManipStart_SetsAction(s, act, data) ==
    LET s1 == [s EXCEPT !.es = ActStart_Overwrite(s.es, act, data),
                        !.Starts = Append(@, act)]
        s2 == UndoSave(s1, act, data)
    IN  [s2 EXCEPT !.es = ActUnlock(s2.es)]

\* a variant that saves no undo checkpoint
ManipStart_NoUndo(s, act, data) ==
    LET s1 == [s EXCEPT !.es = ActStart(s.es, act, data),
                        !.Starts = Append(@, act)]
    IN  [s1 EXCEPT !.es = ActUnlock(s1.es)]

\* SVGView.ManipStart
ManipStart(s, act, data) ==
    LET s1 == [s EXCEPT !.es = ActStart(s.es, act, data),
                        !.Starts = Append(@, act)]
        s2 == UndoSave(s1, act, data)
    IN  [s2 EXCEPT !.es = ActUnlock(s2.es)]

-----------------------------------------------------------------------------
(* The sprites of the window (win.Sprites): a sequence, in the order in    *)
(* which the sprites were added, of records [Name, Props, On]; Props holds *)
(* the properties grid-type, grid-sub and grid-idx.  A sprite is never     *)
(* taken out of the sequence, so its position identifies the instance.     *)
(* The pixels that the Draw functions render are not part of the model.    *)

\* the Sprites enum: the main types and the subtypes
SpriteTypes ==
    {"SpReshapeBBox", "SpSelBBox", "SpNodePoint", "SpNodeCtrl", "SpRubberBand",
     "SpAlignMatch"}
SpriteSubs ==
    {"SpBBoxUpL", "SpBBoxUpC", "SpBBoxUpR", "SpBBoxDnL", "SpBBoxDnC", "SpBBoxDnR",
     "SpBBoxLfM", "SpBBoxRtM"}

\* the SpriteNames map; a key that is not in the map gives ""
SpriteNames(t) ==
    CASE t = "SpBBoxUpL" -> "up-l"
      [] t = "SpBBoxUpC" -> "up-c"
      [] t = "SpBBoxUpR" -> "up-r"
      [] t = "SpBBoxDnL" -> "dn-l"
      [] t = "SpBBoxDnC" -> "dn-c"
      [] t = "SpBBoxDnR" -> "dn-r"
      [] t = "SpBBoxLfM" -> "lf-m"
      [] t = "SpBBoxRtM" -> "rt-m"
      [] t = "SpReshapeBBox" -> "reshape-bbox"
      [] t = "SpSelBBox" -> "sel-bbox"
      [] t = "SpNodePoint" -> "node-point"
      [] t = "SpNodeCtrl" -> "node-ctrl"
      [] t = "SpRubberBand" -> "rubber-band"
      [] t = "SpAlignMatch" -> "align-match"
      [] OTHER -> ""

\* SpriteName
SpriteName(typ, subtyp, idx) ==
    CASE typ = "SpReshapeBBox" -> SpriteNames(typ) \o "-" \o SpriteNames(subtyp)
      [] typ = "SpSelBBox" ->
           SpriteNames(typ) \o "-" \o ToString(idx) \o "-" \o SpriteNames(subtyp)
      [] typ = "SpNodePoint" -> SpriteNames(typ) \o "-" \o ToString(idx)
      [] typ = "SpNodeCtrl" -> SpriteNames(typ) \o "-" \o ToString(idx)
      [] typ = "SpRubberBand" -> SpriteNames(typ) \o "-" \o SpriteNames(subtyp)
      [] typ = "SpAlignMatch" -> SpriteNames(typ) \o "-" \o ToString(idx)
      [] OTHER -> SpriteNames(typ)

\* gi.NewSprite followed by SetSpriteProps
NewSprite(typ, subtyp, idx) ==
    [Name |-> SpriteName(typ, subtyp, idx),
     Props |-> [typ |-> typ, sub |-> subtyp, idx |-> idx],
     On |-> FALSE]

\* win.SpriteByName: the position of the sprite of that name, 0 when none
SpriteByName(w, nm) ==
    IF \E i \in 1..Len(w) : w[i].Name = nm
    THEN CHOOSE i \in 1..Len(w) :
            w[i].Name = nm /\ \A j \in 1..(i - 1) : w[j].Name # nm
    ELSE 0

\* win.ActivateSprite, win.InactivateSprite
ActivateSprite(w, nm) ==
    [i \in 1..Len(w) |-> IF w[i].Name = nm THEN [w[i] EXCEPT !.On = TRUE] ELSE w[i]]
InactivateSprite(w, nm) ==
    [i \in 1..Len(w) |-> IF w[i].Name = nm THEN [w[i] EXCEPT !.On = FALSE] ELSE w[i]]

\* a variant that makes a new sprite on every request
Sprite_AlwaysNew(w, typ, subtyp, idx) ==
    ActivateSprite(Append(w, NewSprite(typ, subtyp, idx)), SpriteName(typ, subtyp, idx))

\* Sprite: the sprites of the window after the request; the sprite that is
\* returned is the one of the name SpriteName(typ, subtyp, idx)
Sprite(w, typ, subtyp, idx) ==
    LET spnm == SpriteName(typ, subtyp, idx)
        w1 == IF SpriteByName(w, spnm) = 0
              THEN Append(w, NewSprite(typ, subtyp, idx))
              ELSE w
    IN  ActivateSprite(w1, spnm)

\* SpriteProps: the main type of a sprite
SpriteProps(sp) == sp.Props.typ

\* InactivateSprites
InactivateSprites(w, typ) ==
    [i \in 1..Len(w) |->
        IF SpriteProps(w[i]) = typ THEN [w[i] EXCEPT !.On = FALSE] ELSE w[i]]

\* the loop of UpdateNodeSprites over the nodes i..(n - 1)
RECURSIVE NodeSpritesFrom(_, _, _)
NodeSpritesFrom(w, i, n) ==
    IF i >= n THEN w
    ELSE NodeSpritesFrom(Sprite(w, "SpNodePoint", "SpUnk", i), i + 1, n)

\* the loop of UpdateNodeSprites that inactivates the sprites i..(prvn - 1)
RECURSIVE RemoveExtraFrom(_, _, _)
RemoveExtraFrom(w, i, prvn) ==
    IF i >= prvn THEN w
    ELSE RemoveExtraFrom(InactivateSprite(w, SpriteName("SpNodePoint", "SpUnk", i)),
                         i + 1, prvn)

\* a variant without the loop that inactivates the extra sprites
UpdateNodeSprites_KeepsExtra(s, n) ==
    [s EXCEPT !.Win = NodeSpritesFrom(s.Win, 0, n), !.es.NNodeSprites = n]

\* UpdateNodeSprites for a selected path of n nodes: the part on the
\* sprites (es.PathNodes is set by the action that calls it)
UpdateNodeSprites(s, n) ==
    LET prvn == s.es.NNodeSprites
        w1 == NodeSpritesFrom(s.Win, 0, n)
        w2 == RemoveExtraFrom(w1, n, prvn)
    IN  [s EXCEPT !.Win = w2, !.es.NNodeSprites = n]

\* SVGView.RemoveNodeSprites: the sprites and the fields of es (es.PathNodes
\* is cleared by the action that calls it)
RemoveNodeSprites(s) ==
    [s EXCEPT !.Win = RemoveExtraFrom(@, 0, s.es.NNodeSprites),
              !.es.NNodeSprites = 0,
              !.es.PathCmds = <<>>,
              !.es.ActivePath = ""]

-----------------------------------------------------------------------------
(* Angles.  An angle is a whole number of half degrees; Atan2 gives the    *)
(* angle truncated towards zero, which is on the same side of every        *)
(* rounding boundary of a 15 degree increment (an odd multiple of 7.5      *)
(* degrees) as the exact angle.                                            *)

\* tan(k / 2 degrees) * 10^6 for k = 1..90
TanTable ==
    << 8727, 17455, 26186, 34921, 43661, 52408, 61163, 69927, 78702,
       87489, 96289, 105104, 113936, 122785, 131652, 140541, 149451, 158384,
       167343, 176327, 185339, 194380, 203452, 212557, 221695, 230868, 240079,
       249328, 258618, 267949, 277325, 286745, 296213, 305731, 315299, 324920,
       334595, 344328, 354119, 363970, 373885, 383864, 393910, 404026, 414214,
       424475, 434812, 445229, 455726, 466308, 476976, 487733, 498582, 509525,
       520567, 531709, 542956, 554309, 565773, 577350, 589045, 600861, 612801,
       624869, 637070, 649408, 661886, 674509, 687281, 700208, 713293, 726543,
       739961, 753554, 767327, 781286, 795436, 809784, 824336, 839100, 854081,
       869287, 884725, 900404, 916331, 932515, 948965, 965689, 982697, 1000000 >>

\* atan(ay / ax) in half degrees, rounded down, for 0 <= ay <= ax, ax > 0
AtanOctant(ay, ax) ==
    Cardinality({k \in 1..90 : TanTable[k] * ax <= ay * 1000000})

\* the angle of (ax, ay), ax, ay >= 0 and not both 0, rounded down and up
QuadFloor(ay, ax) ==
    IF ay <= ax THEN AtanOctant(ay, ax)
    ELSE IF ax = 0 THEN 180 ELSE 180 - (AtanOctant(ax, ay) + 1)
QuadExact(ay, ax) == ay = 0 \/ ax = 0 \/ ay = ax
QuadCeil(ay, ax) == IF QuadExact(ay, ax) THEN QuadFloor(ay, ax) ELSE QuadFloor(ay, ax) + 1

\* mat32.RadToDeg(mat32.Atan2(dy, dx)), in half degrees, truncated
Atan2(dy, dx) ==
    LET ay == Abs(dy)
        ax == Abs(dx)
        mag == IF ay = 0 /\ ax = 0 THEN 0
               ELSE IF dx >= 0 THEN QuadFloor(ay, ax)
               ELSE 360 - QuadCeil(ay, ax)
    IN  IF dy < 0 THEN -mag ELSE mag

\* mat32.Round(a / b) for b > 0: to the nearest integer, halves away from zero
RoundDiv(a, b) ==
    IF a >= 0 THEN (2 * a + b) \div (2 * b) ELSE -((2 * (-a) + b) \div (2 * b))

\* a variant that truncates the quotient instead of rounding it
SnapToIncr_Trunc(val, off, incr) ==
    LET tol == Prefs.SnapTol
        nint == ((val - off) \div incr) * incr + off
        dint == Abs(val - nint)
    IN  IF dint < tol * incr THEN <<nint, TRUE>> ELSE <<val, FALSE>>

\* SnapToIncr: snap val to the nearest off + k * incr if within tolerance
SnapToIncr(val, off, incr) ==
    LET tol == Prefs.SnapTol
        nint == RoundDiv(val - off, incr) * incr + off
        dint == Abs(val - nint)
    IN  IF dint < tol * incr THEN <<nint, TRUE>> ELSE <<val, FALSE>>

-----------------------------------------------------------------------------
(* The drag controllers                                                    *)

\* the eight handles of the selection box (the Sprites enum)
Sprites ==
    {"SizeUpL", "SizeUpM", "SizeUpR", "SizeDnL", "SizeDnM", "SizeDnR",
     "SizeLfC", "SizeRtC"}

\* EditState.DragSelStart: the drag anchors, and the three drag boxes set
\* to the bounding box of the selection
DragSelStart(es, pos, selbb) ==
    [es EXCEPT !.DragStartPos = pos, !.DragCurPos = pos,
               !.DragSelStartBBox = selbb, !.DragSelCurBBox = selbb,
               !.DragSelEffBBox = selbb]

\* EditState.DragNodeStart
DragNodeStart(es, pos) == [es EXCEPT !.DragStartPos = pos, !.DragCurPos = pos]

\* for every selected item: itm.ReadGeom(ss.InitGeom), then
\* itm.ApplyDeltaXForm(del, sc, rot, pt)
ApplyDeltaXForm(s, del, scNum, scDen, rot, pt) ==
    Log([s EXCEPT !.Geom = [itm \in Selected |-> XForm(del, scNum, scDen, rot, pt)]],
        "ApplyDeltaXForm", "")

AddMin(bb, d) == [bb EXCEPT !.Min = VAdd(@, d)]
AddMax(bb, d) == [bb EXCEPT !.Max = VAdd(@, d)]
XOnly(d) == <<d[1], 0>>
YOnly(d) == <<0, d[2]>>

\* a variant that starts the action on every event
DragMove_AlwaysStarts(s, delta) ==
    LET dv == PxV(delta)
        s1 == [s EXCEPT !.es.DragSelCurBBox = AddMax(AddMin(@, dv), dv)]
        s2 == Log([ManipStart(s1, "Move", SelectedNamesString)
                      EXCEPT !.es = GatherAlignPoints(@)], "GatherAlignPoints", "")
        s3 == [s2 EXCEPT !.es = SnapCurBBox(@, TRUE)]
        pt == VSub(s3.es.DragSelStartBBox.Min, PxV(SvOff))
        tdel == VSub(s3.es.DragSelEffBBox.Min, s3.es.DragSelStartBBox.Min)
        s4 == ApplyDeltaXForm(s3, tdel, <<1, 1>>, <<1, 1>>, 0, pt)
    IN  GoManipUpdate(s4)

\* a variant that applies the transform before the action is started
DragMove_AppliesFirst(s, delta) ==
    LET dv == PxV(delta)
        s1 == [s EXCEPT !.es.DragSelCurBBox = AddMax(AddMin(@, dv), dv)]
        s2 == [s1 EXCEPT !.es = SnapCurBBox(@, TRUE)]
        pt == VSub(s2.es.DragSelStartBBox.Min, PxV(SvOff))
        tdel == VSub(s2.es.DragSelEffBBox.Min, s2.es.DragSelStartBBox.Min)
        s3 == ApplyDeltaXForm(s2, tdel, <<1, 1>>, <<1, 1>>, 0, pt)
        s4 == IF ~InAction(s3.es)
              THEN Log([ManipStart(s3, "Move", SelectedNamesString)
                           EXCEPT !.es = GatherAlignPoints(@)], "GatherAlignPoints", "")
              ELSE s3
    IN  GoManipUpdate(s4)

\* a variant that applies the translation on top of the one applied by the
\* event before
DragMove_Compounds(s, delta) ==
    LET dv == PxV(delta)
        s1 == [s EXCEPT !.es.DragSelCurBBox = AddMax(AddMin(@, dv), dv)]
        s2 == IF ~InAction(s1.es)
              THEN Log([ManipStart(s1, "Move", SelectedNamesString)
                           EXCEPT !.es = GatherAlignPoints(@)], "GatherAlignPoints", "")
              ELSE s1
        s3 == [s2 EXCEPT !.es = SnapCurBBox(@, TRUE)]
        pt == VSub(s3.es.DragSelStartBBox.Min, PxV(SvOff))
        tdel == VSub(s3.es.DragSelEffBBox.Min, s3.es.DragSelStartBBox.Min)
        s4 == ApplyDeltaXForm(s3, VAdd(s.Geom[SelectedNamesString].del, tdel),
                              <<1, 1>>, <<1, 1>>, 0, pt)
    IN  GoManipUpdate(s4)

\* SVGView.DragMove: delta is the movement of the pointer since the last event
DragMove(s, delta) ==
    LET dv == PxV(delta)
        s1 == [s EXCEPT !.es.DragSelCurBBox = AddMax(AddMin(@, dv), dv)]
        s2 == IF ~InAction(s1.es)
              THEN Log([ManipStart(s1, "Move", SelectedNamesString)
                           EXCEPT !.es = GatherAlignPoints(@)], "GatherAlignPoints", "")
              ELSE s1
        s3 == [s2 EXCEPT !.es = SnapCurBBox(@, TRUE)]
        pt == VSub(s3.es.DragSelStartBBox.Min, PxV(SvOff))
        tdel == VSub(s3.es.DragSelEffBBox.Min, s3.es.DragSelStartBBox.Min)
        s4 == ApplyDeltaXForm(s3, tdel, <<1, 1>>, <<1, 1>>, 0, pt)
        \* sv.SetSelSprites(es.DragSelEffBBox) places the handles on the box
    IN  GoManipUpdate(s4)

\* a variant whose lower right handle moves the lower edge only
ReshapeBBox_DnRLowerOnly(bb, sp, dv) ==
    CASE sp = "SizeUpL" -> AddMin(bb, dv)
      [] sp = "SizeUpM" -> AddMin(bb, YOnly(dv))
      [] sp = "SizeUpR" -> AddMax(AddMin(bb, YOnly(dv)), XOnly(dv))
      [] sp = "SizeDnL" -> AddMax(AddMin(bb, XOnly(dv)), YOnly(dv))
      [] sp = "SizeDnM" -> AddMax(bb, YOnly(dv))
      [] sp = "SizeDnR" -> AddMax(bb, YOnly(dv))
      [] sp = "SizeLfC" -> AddMin(bb, XOnly(dv))
      [] sp = "SizeRtC" -> AddMax(bb, XOnly(dv))
      [] OTHER -> bb

\* a variant whose upper middle handle moves the upper left corner
ReshapeBBox_UpMCorner(bb, sp, dv) ==
    CASE sp = "SizeUpL" -> AddMin(bb, dv)
      [] sp = "SizeUpM" -> AddMin(bb, dv)
      [] sp = "SizeUpR" -> AddMax(AddMin(bb, YOnly(dv)), XOnly(dv))
      [] sp = "SizeDnL" -> AddMax(AddMin(bb, XOnly(dv)), YOnly(dv))
      [] sp = "SizeDnM" -> AddMax(bb, YOnly(dv))
      [] sp = "SizeDnR" -> AddMax(bb, dv)
      [] sp = "SizeLfC" -> AddMin(bb, XOnly(dv))
      [] sp = "SizeRtC" -> AddMax(bb, XOnly(dv))
      [] OTHER -> bb

\* the switch of SpriteReshapeDrag: the current box with the handle moved
ReshapeBBox(bb, sp, dv) ==
    CASE sp = "SizeUpL" -> AddMin(bb, dv)
      [] sp = "SizeUpM" -> AddMin(bb, YOnly(dv))
      [] sp = "SizeUpR" -> AddMax(AddMin(bb, YOnly(dv)), XOnly(dv))
      [] sp = "SizeDnL" -> AddMax(AddMin(bb, XOnly(dv)), YOnly(dv))
      [] sp = "SizeDnM" -> AddMax(bb, YOnly(dv))
      [] sp = "SizeDnR" -> AddMax(bb, dv)
      [] sp = "SizeLfC" -> AddMin(bb, XOnly(dv))
      [] sp = "SizeRtC" -> AddMax(bb, XOnly(dv))
      [] OTHER -> bb

\* a variant that does not keep the box from flipping
ClampMin_None(bb) == bb

\* Min.SetMin(Max.SubScalar(1)): don't allow flipping
ClampMin(bb) ==
    [bb EXCEPT !.Min = <<Min2(bb.Min[1], bb.Max[1] - Px(1)),
                         Min2(bb.Min[2], bb.Max[2] - Px(1))>>]

\* SVGView.SpriteReshapeDrag
SpriteReshapeDrag(s, sp, delta) ==
    LET s1 == IF ~InAction(s.es)
              THEN ManipStart(s, "Reshape", SelectedNamesString)
              ELSE s
        stsz == BoxSize(s1.es.DragSelStartBBox)
        stpos == s1.es.DragSelStartBBox.Min
        dv == PxV(delta)
        s2 == [s1 EXCEPT !.es.DragSelCurBBox = ClampMin(ReshapeBBox(@, sp, dv))]
        s3 == [s2 EXCEPT !.es = SnapCurBBox(@, TRUE)]
        npos == s3.es.DragSelEffBBox.Min
        nsz == BoxSize(s3.es.DragSelEffBBox)
        pt == VSub(s3.es.DragSelStartBBox.Min, PxV(SvOff))
        del == VSub(npos, stpos)
        s4 == ApplyDeltaXForm(s3, del, nsz, stsz, 0, pt)
        \* for an action named "New...", the gradient points of the item are
        \* updated as well; sv.SetSelSprites places the handles
    IN  GoManipUpdate(s4)

\* the switch of SpriteRotateDrag: the current box with the handle moved,
\* the arm (dx, dy) of the rotation and its pivot
RotateCase(sp, st, cur, dv) ==
    LET ctr == <<(st.Min[1] + st.Max[1]) \div 2, (st.Min[2] + st.Max[2]) \div 2>>
        minAll == AddMin(cur, dv)
        minYmaxX == AddMax(AddMin(cur, YOnly(dv)), XOnly(dv))
        minXmaxY == AddMax(AddMin(cur, XOnly(dv)), YOnly(dv))
        maxAll == AddMax(cur, dv)
        R(c, dx, dy, pt) == [cur |-> c, dx |-> dx, dy |-> dy, pt |-> pt]
    IN  CASE sp = "SizeUpL" ->
               R(minAll, st.Max[1] - minAll.Min[1], st.Min[2] - minAll.Min[2],
                 <<st.Max[1], st.Min[2]>>)
          [] sp = "SizeUpM" ->
               R(minYmaxX, minYmaxX.Max[1] - st.Min[1], minYmaxX.Min[2] - st.Min[2], ctr)
          [] sp = "SizeUpR" ->
               R(minYmaxX, minYmaxX.Max[1] - st.Min[1], minYmaxX.Min[2] - st.Min[2],
                 st.Min)
          [] sp = "SizeDnL" ->
               R(minXmaxY, st.Max[1] - minXmaxY.Min[1], st.Max[2] - minXmaxY.Max[2],
                 st.Max)
          [] sp = "SizeDnM" ->
               R(maxAll, maxAll.Max[1] - st.Min[1], maxAll.Max[2] - st.Max[2], ctr)
          [] sp = "SizeDnR" ->
               R(maxAll, maxAll.Max[1] - st.Min[1], maxAll.Max[2] - st.Max[2],
                 <<st.Min[1], st.Max[2]>>)
          [] sp = "SizeLfC" ->
               R(minXmaxY, st.Max[1] - minXmaxY.Min[1], st.Max[2] - minXmaxY.Max[2], ctr)
          [] sp = "SizeRtC" ->
               R(maxAll, maxAll.Max[1] - st.Min[1], maxAll.Max[2] - st.Max[2], ctr)
          [] OTHER -> R(cur, 0, 0, st.Min)

\* the increment of the rotation snap: 15 degrees, in half degrees
RotIncr == 2 * 15

\* a variant that rotates about the center of the start box for every handle
SpriteRotateDrag_CenterPivot(s, sp, delta) ==
    LET s1 == IF ~InAction(s.es)
              THEN ManipStart(s, "Rotate", SelectedNamesString)
              ELSE s
        st == s1.es.DragSelStartBBox
        r == RotateCase(sp, st, s1.es.DragSelCurBBox, PxV(delta))
        s2 == [s1 EXCEPT !.es.DragSelCurBBox = r.cur]
        ang == SnapToIncr(Atan2(r.dy, r.dx), 0, RotIncr)[1]
        ctr == <<(st.Min[1] + st.Max[1]) \div 2, (st.Min[2] + st.Max[2]) \div 2>>
        s3 == ApplyDeltaXForm(s2, Zero2, <<1, 1>>, <<1, 1>>, ang, VSub(ctr, PxV(SvOff)))
    IN  GoManipUpdate(s3)

\* SVGView.SpriteRotateDrag
SpriteRotateDrag(s, sp, delta) ==
    LET s1 == IF ~InAction(s.es)
              THEN ManipStart(s, "Rotate", SelectedNamesString)
              ELSE s
        r == RotateCase(sp, s1.es.DragSelStartBBox, s1.es.DragSelCurBBox, PxV(delta))
        s2 == [s1 EXCEPT !.es.DragSelCurBBox = r.cur]
        ang == SnapToIncr(Atan2(r.dy, r.dx), 0, RotIncr)[1]
        pt == VSub(r.pt, PxV(SvOff))
        s3 == ApplyDeltaXForm(s2, Zero2, <<1, 1>>, <<1, 1>>, ang, pt)
        \* sv.SetSelSprites(es.DragSelCurBBox) places the handles
    IN  GoManipUpdate(s3)

\* the name of the active path
ActivePathNm == "path1"

\* SVGView.SpriteNodeDrag up to the edit of the path: where is the position
\* of the pointer after ConstrainPoint and SnapPoint have adjusted it
SpriteNodeDrag(s, where) ==
    LET s1 == IF ~InAction(s.es)
              THEN Log([ManipStart(s, "NodeAdj", ActivePathNm)
                           EXCEPT !.es = GatherAlignPoints(@)], "GatherAlignPoints", "")
              ELSE s
        s2 == [s1 EXCEPT !.Win = InactivateSprites(@, "SpAlignMatch")]
        \* SetSpritePos places the sprite of the node at its new position
    IN  [s2 EXCEPT !.es.DragCurPos = where]

\* the delta of the node drag: mdel := es.DragCurPos.Sub(es.DragStartPos)
NodeDragDelta(s) == VSub(s.es.DragCurPos, s.es.DragStartPos)

\* sv.UpdateSig() called by the handler itself, on the event thread: the
\* view is told to repaint, whether or not a refresh is in flight; the
\* request is recorded in the history
UpdateSig(s) == Log(s, "UpdateSig", "")

\* a variant that ends without the request of a refresh
ManipDone_NoUpdateSig(s, sel) ==
    LET s0 == IF s.es.Action = "BoxSelect"
              THEN [s EXCEPT !.Win = InactivateSprites(@, "SpRubberBand")]
              ELSE s
        s1 == IF s0.es.Action = "BoxSelect" /\ Len(sel) > 0
              THEN [s0 EXCEPT !.es = DragSelStart(s0.es, s0.es.DragCurPos, sel[1])]
              ELSE s0
        s2 == [s1 EXCEPT !.es = ActDone(DragReset(s1.es)),
                         !.Starts = <<>>, !.Saved = 0]
    IN  Log(s2, "ManipDone", "")

\* SVGView.ManipDone; sel is what SelectWithinBBox finds, as the sequence of
\* the bounding box of the items found, empty when there are none
ManipDone(s, sel) ==
    LET s0 == IF s.es.Action = "BoxSelect"
              THEN [s EXCEPT !.Win = InactivateSprites(@, "SpRubberBand")]
              ELSE s
        s1 == IF s0.es.Action = "BoxSelect" /\ Len(sel) > 0
              THEN [s0 EXCEPT !.es = DragSelStart(s0.es, s0.es.DragCurPos, sel[1])]
              ELSE s0
        s2 == [s1 EXCEPT !.es = ActDone(DragReset(s1.es)),
                         !.Starts = <<>>, !.Saved = 0]
        \* sv.GridView.UpdateSelectToolbar(), then sv.UpdateSig()
    IN  Log(UpdateSig(s2), "ManipDone", "")

-----------------------------------------------------------------------------
(* The paths and inputs of the path specification                          *)

\* greatest number of points of a path
MaxPts == 4

\* the operand pair of the first point, and those of the later points
\* (a one-axis command takes its own axis of the pair)
StartOperands == {<<3, -1>>}
Operands == {<<1, 2>>}
\* the deltas of a node drag, and the target points of PathNodeSetPoint
Deltas == {<<0, 0>>, <<1, 0>>, <<0, -1>>, <<2, 1>>}

\* the operands of one point of command c with operand pair o
PtElems(c, o) ==
    CASE c \in {"H", "h"} -> <<NumElem(o[1])>>
      [] c \in {"V", "v"} -> <<NumElem(o[2])>>
      [] OTHER -> <<NumElem(o[1]), NumElem(o[2])>>

\* index of the last command header of data
RECURSIVE LastHdr(_, _)
LastHdr(data, i) == IF data[i].cmd # "" THEN i ELSE LastHdr(data, i - 1)

\* data with one more point, as a new command or as a further point of
\* the last command when that is the same command
AddPoint(data, c, o, join) ==
    LET h == LastHdr(data, Len(data))
    IN  IF join /\ data[h].cmd = c
        THEN [data EXCEPT ![h].n = @ + CmdArity(c)] \o PtElems(c, o)
        ELSE data \o <<CmdElem(c, CmdArity(c))>> \o PtElems(c, o)

\* all paths of exactly n points: a move command, then line commands
RECURSIVE PathsOf(_)
PathsOf(n) ==
    IF n = 1
    THEN {<<CmdElem(c, 2)>> \o PtElems(c, o) : c \in MoveCmds, o \in StartOperands}
    ELSE {AddPoint(d, c, o, j) :
            d \in PathsOf(n - 1), c \in LineCmds \cup MoveCmds, o \in Operands,
            j \in BOOLEAN}

AllPaths == UNION {PathsOf(n) : n \in 1..MaxPts}

\* the drag in progress: its controller, its handle or node, the number of
\* its move events, and the number of manipulations that have moved
NoDrag == [ctl |-> "none", sp |-> "none", idx |-> 0, moves |-> 0, manips |-> 0]

NoEdit == [op |-> "none", idx |-> 0, arg |-> Zero2, redone |-> FALSE]

InitPath ==
    /\ Data \in AllPaths
    /\ PathNodes = PathNodesOf(Data)
    /\ preData = <<>>
    /\ preNodes = <<>>
    /\ edit = NoEdit
    /\ snapArgs = <<0, 0, 0>>
    /\ snapRes = "none"
    /\ Prefs = DefaultPrefs
    /\ sv = InitSv
    /\ drag = NoDrag
    /\ Siblings = <<>>

\* one event of a node drag: PathNodeSetOnePoint with the decomposition
\* of the drag start (es.PathNodes) and the total delta of the drag
MoveOnePoint(pidx, dv) ==
    /\ ~edit.redone
    /\ edit.op = "none" \/ (edit.op = "SetOnePoint" /\ edit.idx = pidx)
    /\ pidx < Len(PathNodes)
    /\ Data' = PathNodeSetOnePoint(Data, PathNodes, pidx, dv)
    /\ preData' = IF edit.op = "none" THEN Data ELSE preData
    /\ edit' = [op |-> "SetOnePoint", idx |-> pidx, arg |-> dv, redone |-> FALSE]
    /\ UNCHANGED <<PathNodes, preNodes, snapVars, manipVars>>

\* PathNodeSetPoint of one node of the current decomposition
SetPoint(pidx, npt) ==
    /\ edit.op = "none"
    /\ pidx < Len(PathNodes)
    /\ Data' = PathNodeSetPoint(Data, PathNodes[pidx + 1], npt)
    /\ preData' = Data
    /\ edit' = [op |-> "SetPoint", idx |-> pidx, arg |-> npt, redone |-> FALSE]
    /\ UNCHANGED <<PathNodes, preNodes, snapVars, manipVars>>

\* the re-decomposition of UpdateNodeSprites: es.PathNodes = sv.PathNodes(path)
Decompose ==
    /\ edit.op # "none"
    /\ ~edit.redone
    /\ PathNodes' = PathNodesOf(Data)
    /\ preNodes' = PathNodes
    /\ edit' = [edit EXCEPT !.redone = TRUE]
    /\ UNCHANGED <<Data, preData, snapVars, manipVars>>

NextPath ==
    \/ \E i \in 0..(MaxPts - 1), d \in Deltas : MoveOnePoint(i, d)
    \/ \E i \in 0..(MaxPts - 1), p \in Deltas : SetPoint(i, p)
    \/ Decompose

SpecPath == InitPath /\ [][NextPath]_vars

-----------------------------------------------------------------------------
(* The specification of the snap function calls                            *)

\* values and snap points are drawn from -MaxSnapVal..MaxSnapVal
MaxSnapVal == 4
\* the tolerance reference (grid spacing) is drawn from 0..MaxTolRef
MaxTolRef == 2
\* Prefs.SnapTol is drawn from 1..MaxSnapTol (the preference has min 1)
MaxSnapTol == 2

InitSnap ==
    /\ snapArgs \in (-MaxSnapVal..MaxSnapVal) \X (-MaxSnapVal..MaxSnapVal) \X (0..MaxTolRef)
    /\ snapRes = "none"
    /\ Prefs \in {[DefaultPrefs EXCEPT !.SnapTol = t] : t \in 1..MaxSnapTol}
    /\ Data = <<>>
    /\ PathNodes = <<>>
    /\ preData = <<>>
    /\ preNodes = <<>>
    /\ edit = NoEdit
    /\ sv = InitSv
    /\ drag = NoDrag
    /\ Siblings = <<>>

CallSnapToPt ==
    /\ snapRes = "none"
    /\ snapRes' = SnapToPt(snapArgs[1], snapArgs[2], snapArgs[3])
    /\ UNCHANGED <<pathVars, snapArgs, Prefs, manipVars>>

NextSnap == CallSnapToPt

SpecSnap == InitSnap /\ [][NextSnap]_vars

\* C10: SnapToPt(val, snap, tolRef) returns (snap, true) if and only if
\* |val - snap| < SnapTol * tolRef, with strict inequality; in every other
\* case, a distance exactly equal to the tolerance included, it returns
\* (val, false).
C10_SnapToPtStrict ==
    snapRes # "none" =>
        LET val == snapArgs[1]
            snap == snapArgs[2]
            lim == Prefs.SnapTol * snapArgs[3]
            near == (val - snap < lim) /\ (snap - val < lim)
        IN  /\ snapRes[2] = near
            /\ near => snapRes[1] = snap
            /\ ~near => snapRes[1] = val

\* a call at a distance exactly equal to the tolerance, which did not snap
C10_Witness ==
    /\ snapRes # "none"
    /\ snapArgs[1] # snapArgs[2]
    /\ Abs(snapArgs[1] - snapArgs[2]) = Prefs.SnapTol * snapArgs[3]
    /\ snapRes = <<snapArgs[1], FALSE>>

-----------------------------------------------------------------------------
(* The specification of the drags: a press on the selection, on one of its *)
(* handles or on a node of the active path, pointer-move events handled by *)
(* the controller of the drag, and the release.                            *)

\* greatest number of move events of one drag
MaxMoves == 2
\* greatest number of undo checkpoints
MaxUndo == 2

\* the bounding box of the selection at a press, and the box of a sibling
SelBBoxes == {PxBox(0, 0, 1, 2)}
SiblingBBox == PxBox(3, -1, 5, 4)
\* the position of the pointer at a press on the selection
PressPos == <<1, 1>>
\* the deltas of the move events of a drag, in pixels
DragDeltas == {<<1, 1>>, <<-2, 0>>}
\* the active path of a node drag
NodePath == AddPoint(AddPoint(<<CmdElem("M", 2), NumElem(3), NumElem(-1)>>,
                              "l", <<1, 2>>, FALSE), "l", <<1, 2>>, TRUE)
\* what SelectWithinBBox can find
Sels == {<<>>} \cup {<<bb>> : bb \in SelBBoxes}

InitManip ==
    /\ Data = NodePath
    /\ PathNodes = PathNodesOf(Data)
    /\ preData = <<>>
    /\ preNodes = <<>>
    /\ edit = NoEdit
    /\ snapArgs = <<0, 0, 0>>
    /\ snapRes = "none"
    /\ Prefs \in {[DefaultPrefs EXCEPT !.SnapTol = 1, !.SnapGuide = g] : g \in BOOLEAN}
    /\ sv = UpdateNodeSprites(InitSv, Len(PathNodesOf(NodePath)))
    /\ drag = NoDrag
    /\ Siblings = <<SiblingBBox>>

CanSave == Len(sv.UndoMgr) < MaxUndo
CanMove(ctl) ==
    /\ drag.ctl = ctl
    /\ drag.moves < MaxMoves
    /\ InAction(sv.es) \/ CanSave

\* the drag after one more move event
Moved ==
    [drag EXCEPT !.moves = @ + 1,
                 !.manips = IF drag.moves = 0 THEN @ + 1 ELSE @]

\* a press on the selection (ctl = "Move") or on handle sp of it
PressSel(ctl, sp, bb) ==
    /\ drag.ctl = "none"
    /\ CanSave
    /\ sv' = [sv EXCEPT !.es = DragSelStart(@, PressPos, bb),
                        !.Geom = [itm \in Selected |-> IdentXForm],
                        !.Trace = <<>>]
    /\ drag' = [drag EXCEPT !.ctl = ctl, !.sp = sp]
    /\ UNCHANGED <<pathVars, snapVars, Siblings>>

\* a press on node idx of the active path
PressNode(idx) ==
    /\ drag.ctl = "none"
    /\ CanSave
    /\ idx < Len(PathNodes)
    /\ sv' = [sv EXCEPT !.es = DragNodeStart(@, PathNodes[idx + 1].WinPt),
                        !.Trace = <<>>]
    /\ drag' = [drag EXCEPT !.ctl = "Node", !.idx = idx]
    /\ UNCHANGED <<pathVars, snapVars, Siblings>>

DragMoveEvent(delta) ==
    /\ CanMove("Move")
    /\ sv' = DragMove(sv, delta)
    /\ drag' = Moved
    /\ UNCHANGED <<pathVars, snapVars, Siblings>>

ReshapeEvent(delta) ==
    /\ CanMove("Reshape")
    /\ sv' = SpriteReshapeDrag(sv, drag.sp, delta)
    /\ drag' = Moved
    /\ UNCHANGED <<pathVars, snapVars, Siblings>>

RotateEvent(delta) ==
    /\ CanMove("Rotate")
    /\ sv' = SpriteRotateDrag(sv, drag.sp, delta)
    /\ drag' = Moved
    /\ UNCHANGED <<pathVars, snapVars, Siblings>>

\* a move event of a node drag with the pointer at delta from the press:
\* SpriteNodeDrag, whose last steps are PathNodeSetOnePoint and the update
NodeDragEvent(delta) ==
    /\ CanMove("Node")
    /\ LET s1 == SpriteNodeDrag(sv, VAdd(sv.es.DragStartPos, delta))
       IN  /\ Data' = PathNodeSetOnePoint(Data, PathNodes, drag.idx, NodeDragDelta(s1))
           /\ sv' = GoManipUpdate(Log(s1, "PathNodeSetPoint", ""))
    /\ drag' = Moved
    /\ UNCHANGED <<PathNodes, preData, preNodes, edit, snapVars, Siblings>>

\* the release of a drag of the selection or of a handle: ManipDone
ReleaseSel(sel) ==
    /\ drag.ctl \in {"Move", "Reshape", "Rotate"}
    /\ sv' = ManipDone(sv, sel)
    /\ drag' = [NoDrag EXCEPT !.manips = drag.manips]
    /\ UNCHANGED <<pathVars, snapVars, Siblings>>

\* the release of a node drag: UpdateNodeSprites, then ManipDone
ReleaseNode(sel) ==
    /\ drag.ctl = "Node"
    /\ PathNodes' = PathNodesOf(Data)
    /\ sv' = ManipDone(UpdateNodeSprites(sv, Len(PathNodesOf(Data))), sel)
    /\ drag' = [NoDrag EXCEPT !.manips = drag.manips]
    /\ UNCHANGED <<Data, preData, preNodes, edit, snapVars, Siblings>>

Next ==
    \/ \E bb \in SelBBoxes : PressSel("Move", "none", bb)
    \/ \E ctl \in {"Reshape", "Rotate"}, sp \in Sprites, bb \in SelBBoxes :
          PressSel(ctl, sp, bb)
    \/ \E i \in 0..2 : PressNode(i)
    \/ \E d \in DragDeltas : DragMoveEvent(d)
    \/ \E d \in DragDeltas : ReshapeEvent(d)
    \/ \E d \in DragDeltas : RotateEvent(d)
    \/ \E d \in DragDeltas : NodeDragEvent(d)
    \/ \E sel \in Sels : ReleaseSel(sel)
    \/ \E sel \in Sels : ReleaseNode(sel)

Spec == InitManip /\ [][Next]_vars

\* the actions that other tools start through ManipStart
ApiActs == {"BoxSelect", "NewRect"}

\* a call of ManipStart from outside the drag controllers
ManipStartCall(act) ==
    /\ CanSave
    /\ sv' = ManipStart(sv, act, SelectedNamesString)
    /\ UNCHANGED <<pathVars, snapVars, drag, Siblings>>

\* a call of ManipDone with no drag in progress
ManipDoneCall(sel) ==
    /\ drag.ctl = "none"
    /\ InAction(sv.es)
    /\ sv' = ManipDone(sv, sel)
    /\ UNCHANGED <<pathVars, snapVars, drag, Siblings>>

\* the lifecycle calls, interleaved with drags of the selection
NextAPI ==
    \/ \E bb \in SelBBoxes : PressSel("Move", "none", bb)
    \/ \E d \in DragDeltas : DragMoveEvent(d)
    \/ \E sel \in Sels : ReleaseSel(sel)
    \/ \E act \in ApiActs : ManipStartCall(act)
    \/ \E sel \in Sels : ManipDoneCall(sel)

SpecAPI == InitManip /\ [][NextAPI]_vars

-----------------------------------------------------------------------------
(* Properties of the path node model (under SpecPath)                      *)

\* the state after PathNodeSetOnePoint on node pidx followed by PathNodes
MovedOne == edit.op = "SetOnePoint" /\ edit.redone
\* the state after PathNodeSetPoint followed by PathNodes
SetOne == edit.op = "SetPoint" /\ edit.redone

\* the change of the resolved absolute position of node k (1-based)
CpShift(k) == VSub(PathNodes[k].Cp, preNodes[k].Cp)

TwoAxisCmds == {"M", "m", "L", "l"}
RelNonMove == {"l", "h", "v"}

\* a path [P0, P1, P2] whose node P1 was moved
Moved3 == MovedOne /\ Len(preNodes) = 3 /\ edit.idx = 1

\* C2 as stated: for a path [P0, P1, P2] with P1 and P2 relative and
\* neither a close nor a move command, moving P1 by d and re-decomposing
\* shifts P1 by exactly d and leaves P0 and P2 where they were.
C2_AnyRelative ==
    (Moved3 /\ preNodes[2].Cmd \in RelNonMove /\ preNodes[3].Cmd \in RelNonMove)
        => /\ CpShift(2) = edit.arg
           /\ CpShift(1) = Zero2
           /\ CpShift(3) = Zero2

\* C2 amended: the same for P1 and P2 relative line-to commands (l), which
\* carry both coordinates.
C2_OnePointCompensation ==
    (Moved3 /\ preNodes[2].Cmd = "l" /\ preNodes[3].Cmd = "l")
        => /\ CpShift(2) = edit.arg
           /\ CpShift(1) = Zero2
           /\ CpShift(3) = Zero2

C2_Witness ==
    /\ Moved3 /\ preNodes[2].Cmd = "l" /\ preNodes[3].Cmd = "l"
    /\ edit.arg = <<2, 1>>
    /\ CpShift(2) = <<2, 1>>

\* C3: for a path of any length and any node i, moving node i by d and
\* re-decomposing changes node i by d and no other node, however many
\* relative nodes follow node i.  Stated for a node i that carries both
\* coordinates and is followed by relative line-to nodes only, where no
\* one-axis or absolute command is involved.
C3_IsolatedEdit ==
    (/\ MovedOne
     /\ preNodes[edit.idx + 1].Cmd \in TwoAxisCmds
     /\ \A k \in (edit.idx + 2)..Len(preNodes) : preNodes[k].Cmd = "l")
        => \A k \in 1..Len(preNodes) :
              CpShift(k) = IF k = edit.idx + 1 THEN edit.arg ELSE Zero2

RestUnchanged(k) ==
    \A j \in 1..Len(Data) :
        j > preNodes[k].Idx + CmdArity(preNodes[k].Cmd) => Data[j] = preData[j]

C5_AnyNode == SetOne => PathNodes[edit.idx + 1].Cp = edit.arg

\* C5 amended: the node's resolved coordinate equals p for the commands
\* that carry both coordinates (M, m, L, l), relative or absolute; for a
\* horizontal-only command (H, h) only its X, and for a vertical-only
\* command (V, v) only its Y, equals p's, the other coordinate being left
\* as it was.
C5_RoundTrip ==
    SetOne =>
        LET c == preNodes[edit.idx + 1].Cmd
            old == preNodes[edit.idx + 1].Cp
            new == PathNodes[edit.idx + 1].Cp
        IN  CASE c \in TwoAxisCmds -> new = edit.arg
              [] c \in {"H", "h"} -> new = <<edit.arg[1], old[2]>>
              [] c \in {"V", "v"} -> new = <<old[1], edit.arg[2]>>

C5_Witness ==
    /\ SetOne /\ edit.idx = 2
    /\ preNodes[3].Cmd = "l"
    /\ preNodes[3].Cp # <<2, 1>>
    /\ PathNodes[3].Cp = <<2, 1>>

-----------------------------------------------------------------------------
(* Properties of the drag controllers (under Spec)                         *)

\* number of the steps of the history that are step
Count(step) == Cardinality({i \in 1..Len(sv.Trace) : sv.Trace[i][1] = step})
\* position of the first step of the history that is step, 0 when none is
First(step) ==
    IF Count(step) = 0 THEN 0
    ELSE CHOOSE i \in 1..Len(sv.Trace) :
            /\ sv.Trace[i][1] = step
            /\ \A j \in 1..(i - 1) : sv.Trace[j][1] # step

\* C1: after every SpriteReshapeDrag event, for any of the 8 handles, any
\* delta and any sequence of earlier events in the drag, DragSelCurBBox
\* satisfies Min.X <= Max.X - 1 and Min.Y <= Max.Y - 1.
C1_ResizeClamp ==
    (drag.ctl = "Reshape" /\ drag.moves > 0) =>
        LET bb == sv.es.DragSelCurBBox
        IN  /\ bb.Min[1] <= bb.Max[1] - Px(1)
            /\ bb.Min[2] <= bb.Max[2] - Px(1)

\* the upper left handle of a box one pixel wide was dragged one pixel to
\* the right: the left edge was put back where the box is one pixel wide
C1_Witness ==
    /\ drag.ctl = "Reshape"
    /\ drag.sp = "SizeUpL"
    /\ drag.moves = 1
    /\ sv.es.DragSelStartBBox = PxBox(0, 0, 1, 2)
    /\ sv.es.DragSelCurBBox = PxBox(0, 1, 1, 2)

\* C8: in any sequence of manipulations, each made of pointer-move events
\* of one controller followed by ManipDone, exactly one undo checkpoint is
\* captured per manipulation, at its first move event; later move events
\* and ManipDone capture none, and ManipDone returns the action to idle so
\* that the next manipulation captures its own checkpoint.
C8_OneCheckpointPerManip ==
    /\ Len(sv.UndoMgr) = drag.manips
    /\ (drag.ctl # "none" /\ drag.moves = 0) => (sv.Saved = 0 /\ ~InAction(sv.es))
    /\ drag.moves > 0 =>
          /\ sv.Saved = 1
          /\ InAction(sv.es)
          /\ Count("UndoSave") = 1
          /\ First("UndoSave") < First("GoManipUpdate")
    /\ drag.ctl = "none" =>
          /\ sv.Saved = 0
          /\ ~InAction(sv.es)
          /\ Count("UndoSave") <= 1

\* two manipulations are done, a move of two events and then a node drag,
\* each with its own checkpoint
C8_Witness ==
    /\ drag.ctl = "none"
    /\ Len(sv.UndoMgr) = 2
    /\ sv.UndoMgr[1][1] = "Move"
    /\ sv.UndoMgr[2][1] = "NodeAdj"
    /\ Count("ManipDone") = 1

\* C9: in every controller the undo checkpoint of a manipulation is
\* captured before the first mutation of document geometry or path data of
\* that manipulation: no ApplyDeltaXForm or PathNodeSetPoint of a
\* manipulation happens before its UndoSave has completed.
C9_UndoBeforeMutation ==
    \A i \in 1..Len(sv.Trace) :
        sv.Trace[i][1] \in {"ApplyDeltaXForm", "PathNodeSetPoint"} =>
            \E j \in 1..(i - 1) : sv.Trace[j][1] = "UndoSave"

\* a drag has mutated the document: its checkpoint came first
C9_Witness ==
    /\ drag.moves > 0
    /\ First("UndoSave") = 1
    /\ Count("ApplyDeltaXForm") + Count("PathNodeSetPoint") = 2

-----------------------------------------------------------------------------
(* Properties of the action lifecycle (under SpecAPI)                      *)

\* C6: calling ManipStart twice in a row with different names and no
\* ManipDone in between leaves the action name equal to the name given to
\* the first call.
C6_FirstNameKept ==
    (Len(sv.Starts) = 2 /\ sv.Starts[1] # sv.Starts[2]) =>
        sv.es.Action = sv.Starts[1]

\* ManipStart was called for a box selection and then for a new rectangle
C6_Witness ==
    /\ sv.Starts = <<"BoxSelect", "NewRect">>
    /\ sv.es.Action = "BoxSelect"
    /\ ~sv.es.ActLock

\* C7: ManipStart called while an action is already active is a silent
\* no-op: it captures no additional undo checkpoint (UndoSave is not run a
\* second time).
C7_ReentrantNoCheckpoint ==
    Len(sv.Starts) >= 2 => sv.Saved = 1

-----------------------------------------------------------------------------
(* The specification of the rotate drags: drags of the rotate handles      *)
(* under every snap tolerance from 1 to MaxSnapTol.                        *)

\* the deltas of the move events of a rotate drag, in pixels: with the
\* lower right handle of the box (0,0)-(1,2), <<7, 1>> gives the arm
\* (8, 1), an angle of 7.1 degrees, and <<6, 1>> the arm (7, 1), an angle
\* of 8.1 degrees
RotDeltas == {<<7, 1>>, <<6, 1>>, <<-3, 2>>}

InitRot ==
    /\ Data = NodePath
    /\ PathNodes = PathNodesOf(Data)
    /\ preData = <<>>
    /\ preNodes = <<>>
    /\ edit = NoEdit
    /\ snapArgs = <<0, 0, 0>>
    /\ snapRes = "none"
    /\ Prefs \in {[DefaultPrefs EXCEPT !.SnapTol = t] : t \in 1..MaxSnapTol}
    /\ sv = UpdateNodeSprites(InitSv, Len(PathNodesOf(NodePath)))
    /\ drag = NoDrag
    /\ Siblings = <<SiblingBBox>>

NextRot ==
    \/ \E sp \in Sprites, bb \in SelBBoxes : PressSel("Rotate", sp, bb)
    \/ \E d \in RotDeltas : RotateEvent(d)
    \/ \E sel \in Sels : ReleaseSel(sel)

SpecRot == InitRot /\ [][NextRot]_vars

\* the state after a move event of a rotate drag
Rotated == drag.ctl = "Rotate" /\ drag.moves > 0
\* the rotation applied to the selection, in half degrees
AppliedRot == sv.Geom[SelectedNamesString].rot
\* the raw angle of the arm of the rotation, in half degrees
RawAngle ==
    LET r == RotateCase(drag.sp, sv.es.DragSelStartBBox, sv.es.DragSelCurBBox, Zero2)
    IN  Atan2(r.dy, r.dx)

\* C11: the rotation applied by SpriteRotateDrag is the raw atan2 angle
\* rounded to the nearest multiple of 15 degrees, for any SnapTol >= 1: a
\* raw angle of 7 degrees gives 0 degrees and one of 8 degrees gives 15.
C11_RotationSnap ==
    Rotated =>
        /\ AppliedRot % RotIncr = 0
        /\ 2 * Abs(AppliedRot - RawAngle) <= RotIncr
        /\ RawAngle = 2 * 7 => AppliedRot = 0
        /\ RawAngle = 2 * 8 => AppliedRot = 2 * 15

\* a raw angle between 8 and 8.5 degrees was rounded up to 15 degrees
C11_Witness ==
    /\ Rotated
    /\ drag.sp = "SizeDnR"
    /\ RawAngle = 2 * 8
    /\ AppliedRot = 2 * 15

-----------------------------------------------------------------------------
(* The specification of the reshape drags: drags of the resize handles     *)
(* under every setting of the guide and grid snapping.                     *)

\* the bounding boxes of the selection at the press, in pixels
ReshapeBBoxes == {PxBox(0, 0, 100, 50), PxBox(0, 0, 1, 2)}
\* the deltas of the move events of a reshape drag, in pixels
ReshapeDeltas == {<<10, 10>>, <<-2, 0>>, <<1, 1>>}

InitReshape ==
    /\ Data = NodePath
    /\ PathNodes = PathNodesOf(Data)
    /\ preData = <<>>
    /\ preNodes = <<>>
    /\ edit = NoEdit
    /\ snapArgs = <<0, 0, 0>>
    /\ snapRes = "none"
    /\ Prefs \in {[DefaultPrefs EXCEPT !.SnapTol = 1, !.SnapGuide = g, !.SnapGrid = r] :
                     g \in BOOLEAN, r \in BOOLEAN}
    /\ sv = UpdateNodeSprites(InitSv, Len(PathNodesOf(NodePath)))
    /\ drag = NoDrag
    /\ Siblings = <<SiblingBBox>>

NextReshape ==
    \/ \E sp \in Sprites, bb \in ReshapeBBoxes : PressSel("Reshape", sp, bb)
    \/ \E d \in ReshapeDeltas : ReshapeEvent(d)
    \/ \E sel \in Sels : ReleaseSel(sel)

SpecReshape == InitReshape /\ [][NextReshape]_vars

\* the first move event of a drag of the lower right handle by d, with the
\* guide and the grid snapping disabled
DnRDrag(d) ==
    /\ drag.sp = "SizeDnR"
    /\ drag.moves = 0
    /\ ~Prefs.SnapGuide
    /\ ~Prefs.SnapGrid
    /\ ReshapeEvent(d)

\* the effective box is the start box with its lower right corner moved by
\* d, and the selection is scaled by effective size / start size and not
\* translated
DnRResult(d) ==
    LET st == sv.es.DragSelStartBBox
        eff == sv.es.DragSelEffBBox
        g == sv.Geom[SelectedNamesString]
    IN  /\ eff = [Min |-> st.Min, Max |-> VAdd(st.Max, PxV(d))]
        /\ g.scNum = BoxSize(eff)
        /\ g.scDen = BoxSize(st)
        /\ g.del = Zero2

\* C12 as stated: with guide and grid snapping disabled, dragging the
\* lower right resize handle by any (dx, dy) gives the effective box
\* {start.min, start.max + (dx, dy)}, scale effective size / start size and
\* translation (0, 0).
C12_AnyDelta ==
    [][\A d \in ReshapeDeltas : DnRDrag(d) => DnRResult(d)']_vars

\* C12 amended: the same for every (dx, dy) that leaves the box at least
\* one pixel wide and high, start.max + (dx, dy) - 1 >= start.min, so that
\* the clamp of the box does not move its upper left corner.
C12_BottomRightDrag ==
    [][\A d \in ReshapeDeltas :
          (/\ DnRDrag(d)
           /\ sv.es.DragSelStartBBox.Max[1] + Px(d[1]) - Px(1) >= sv.es.DragSelStartBBox.Min[1]
           /\ sv.es.DragSelStartBBox.Max[2] + Px(d[2]) - Px(1) >= sv.es.DragSelStartBBox.Min[2])
          => DnRResult(d)']_vars

\* the box (0,0)-(100,50) dragged by (10,10): the effective box is
\* (0,0)-(110,60) and the scale (110/100, 60/50) = (1.1, 1.2)
C12_Witness ==
    /\ drag.ctl = "Reshape" /\ drag.sp = "SizeDnR" /\ drag.moves = 1
    /\ ~Prefs.SnapGuide /\ ~Prefs.SnapGrid
    /\ sv.es.DragSelStartBBox = PxBox(0, 0, 100, 50)
    /\ sv.es.DragSelEffBBox = PxBox(0, 0, 110, 60)
    /\ sv.Geom[SelectedNamesString].scNum = PxV(<<110, 60>>)
    /\ sv.Geom[SelectedNamesString].scDen = PxV(<<100, 50>>)
    /\ sv.Geom[SelectedNamesString].del = Zero2

-----------------------------------------------------------------------------
(* The specification of the display updates: drags of the selection, and   *)
(* the steps of the ManipUpdate goroutines that their move events start,   *)
(* in every interleaving.                                                  *)

InitUpd ==
    /\ Data = NodePath
    /\ PathNodes = PathNodesOf(Data)
    /\ preData = <<>>
    /\ preNodes = <<>>
    /\ edit = NoEdit
    /\ snapArgs = <<0, 0, 0>>
    /\ snapRes = "none"
    /\ Prefs = [DefaultPrefs EXCEPT !.SnapTol = 1]
    /\ sv = UpdateNodeSprites(InitSv, Len(PathNodesOf(NodePath)))
    /\ drag = NoDrag
    /\ Siblings = <<SiblingBBox>>

\* goroutine i tests sv.IsRendering()
UpdCheck(i) ==
    /\ i \in 1..Len(sv.Upd)
    /\ sv.Upd[i] = "start"
    /\ sv' = ManipUpdateCheck(sv, i)
    /\ UNCHANGED <<pathVars, snapVars, drag, Siblings>>

\* goroutine i calls sv.UpdateSig()
UpdSig(i) ==
    /\ i \in 1..Len(sv.Upd)
    /\ sv.Upd[i] = "checked"
    /\ sv' = ManipUpdateSig(sv, i)
    /\ UNCHANGED <<pathVars, snapVars, drag, Siblings>>

\* the refresh of goroutine i completes
UpdDone(i) ==
    /\ i \in 1..Len(sv.Upd)
    /\ sv.Upd[i] = "rendering"
    /\ sv' = ManipUpdateDone(sv, i)
    /\ UNCHANGED <<pathVars, snapVars, drag, Siblings>>

NextUpd ==
    \/ \E bb \in SelBBoxes : PressSel("Move", "none", bb)
    \/ \E d \in DragDeltas : DragMoveEvent(d)
    \/ \E sel \in Sels : ReleaseSel(sel)
    \/ \E i \in 1..(MaxMoves * MaxUndo) : UpdCheck(i)
    \/ \E i \in 1..(MaxMoves * MaxUndo) : UpdSig(i)
    \/ \E i \in 1..(MaxMoves * MaxUndo) : UpdDone(i)

SpecUpd == InitUpd /\ [][NextUpd]_vars

\* the number of refreshes in flight
InFlight == Cardinality({i \in 1..Len(sv.Upd) : sv.Upd[i] = "rendering"})

\* C13: under every interleaving of the ManipUpdate goroutines started one
\* per pointer-move event, a refresh requested while a previous refresh of
\* the same view is still in flight is dropped: at most one refresh is in
\* flight at any time.
C13_OneRefreshInFlight == InFlight <= 1

-----------------------------------------------------------------------------
(* The specification of the sprite requests: calls of Sprite and of        *)
(* InactivateSprites on the sprites of one window.                         *)

\* greatest number of sprites of the window
MaxSprites == 2
\* greatest index of a sprite
MaxSpriteIdx == 1

\* the types and subtypes of the requests
ReqTypes == {"SpReshapeBBox", "SpNodePoint", "SpAlignMatch"}
ReqSubs == {"SpBBoxUpL", "SpBBoxUpC"}

InitSprites ==
    /\ Data = <<>>
    /\ PathNodes = <<>>
    /\ preData = <<>>
    /\ preNodes = <<>>
    /\ edit = NoEdit
    /\ snapArgs = <<0, 0, 0>>
    /\ snapRes = "none"
    /\ Prefs = DefaultPrefs
    /\ sv = InitSv
    /\ drag = NoDrag
    /\ Siblings = <<>>

\* a call of Sprite(win, typ, subtyp, idx, trgsz)
SpriteCall(typ, subtyp, idx) ==
    /\ Len(sv.Win) < MaxSprites \/ SpriteByName(sv.Win, SpriteName(typ, subtyp, idx)) > 0
    /\ sv' = [sv EXCEPT !.Win = Sprite(@, typ, subtyp, idx)]
    /\ UNCHANGED <<pathVars, snapVars, drag, Siblings>>

\* a call of InactivateSprites(win, typ)
InactivateCall(typ) ==
    /\ sv' = [sv EXCEPT !.Win = InactivateSprites(@, typ)]
    /\ UNCHANGED <<pathVars, snapVars, drag, Siblings>>

NextSprites ==
    \/ \E typ \in ReqTypes, sub \in ReqSubs, idx \in 0..MaxSpriteIdx :
          SpriteCall(typ, sub, idx)
    \/ \E typ \in ReqTypes : InactivateCall(typ)

SpecSprites == InitSprites /\ [][NextSprites]_vars

\* no two sprites of w have the same name
UniqueNames(w) == \A i, j \in 1..Len(w) : w[i].Name = w[j].Name => i = j

\* what a request does to the sprites w, giving w2: the sprite of the name
\* is made only if there was none, is the same instance if there was one,
\* is active, and no other sprite is changed
RequestEffect(w, w2, nm) ==
    LET i == SpriteByName(w, nm)
        j == SpriteByName(w2, nm)
    IN  /\ j > 0
        /\ w2[j].On
        /\ i > 0 => (j = i /\ Len(w2) = Len(w) /\ w2[i] = [w[i] EXCEPT !.On = TRUE])
        /\ i = 0 => (j = Len(w) + 1 /\ Len(w2) = Len(w) + 1)
        /\ \A k \in 1..Len(w) : k # i => w2[k] = w[k]

\* what InactivateSprites does to the sprites w, giving w2: no sprite is
\* removed or made, those of the type are inactive and the others unchanged
InactivateEffect(w, w2, typ) ==
    /\ Len(w2) = Len(w)
    /\ \A k \in 1..Len(w) :
          w2[k] = IF w[k].Props.typ = typ THEN [w[k] EXCEPT !.On = FALSE] ELSE w[k]

\* C14: after any sequence of Sprite and InactivateSprites calls, the
\* window holds at most one sprite per name; a sprite is created only on
\* the first request for its name, is active after every request, is only
\* inactivated (never removed) by InactivateSprites, and a later request
\* for the same identity returns that same instance, active again.
C14_SpriteLifecycle ==
    [][/\ UniqueNames(sv.Win) => UniqueNames(sv'.Win)
       /\ \A typ \in ReqTypes, sub \in ReqSubs, idx \in 0..MaxSpriteIdx :
             SpriteCall(typ, sub, idx) =>
                RequestEffect(sv.Win, sv'.Win, SpriteName(typ, sub, idx))
       /\ \A typ \in ReqTypes :
             InactivateCall(typ) => InactivateEffect(sv.Win, sv'.Win, typ)]_vars

\* the sprite of node 0 was requested and then inactivated, and is still
\* there; the alignment sprite was requested after it and is active
C14_Witness ==
    /\ Len(sv.Win) = 2
    /\ sv.Win[1].Name = "node-point-0" /\ ~sv.Win[1].On
    /\ sv.Win[2].Name = "align-match-0" /\ sv.Win[2].On

\* C15: SpriteName gives distinct names to distinct (type, subtype, index)
\* identities, so two requests with different identity triples never
\* resolve to the same sprite instance, and the stored grid-type, grid-sub
\* and grid-idx properties of the sprite that a request returns equal the
\* identity of the request.
C15_IdentityIsName ==
    [][\A typ \in ReqTypes, sub \in ReqSubs, idx \in 0..MaxSpriteIdx :
          SpriteCall(typ, sub, idx) =>
             LET j == SpriteByName(sv'.Win, SpriteName(typ, sub, idx))
             IN  sv'.Win[j].Props = [typ |-> typ, sub |-> sub, idx |-> idx]]_vars

-----------------------------------------------------------------------------
(* The frame of PathNodeSetPoint (under SpecPath)                          *)

\* the node that PathNodeSetPoint was given
SetNode == IF edit.redone THEN preNodes[edit.idx + 1] ELSE PathNodes[edit.idx + 1]

\* the positions in Data (1-based) of the operand slots of node pn:
\* Data[Idx], and Data[Idx+1] for a command that carries both axes
OperandSlots(pn) ==
    IF pn.Cmd \in {"H", "h", "V", "v"} THEN {pn.Idx + 1} ELSE {pn.Idx + 1, pn.Idx + 2}

\* C16: PathNodeSetPoint changes only the operand slots of the given node
\* in path.Data, Data[Idx] and, for commands that carry both axes,
\* Data[Idx+1]; the command kind and every other operand of the path are
\* left unchanged.
C16_SetPointFrame ==
    edit.op = "SetPoint" =>
        /\ Len(Data) = Len(preData)
        /\ \A j \in 1..Len(Data) : j \notin OperandSlots(SetNode) => Data[j] = preData[j]
        /\ \A j \in 1..Len(Data) : Data[j].cmd = preData[j].cmd /\ Data[j].n = preData[j].n

\* the point of a relative horizontal node in the middle of a path was
\* set: its one operand changed, the operand after it did not
C16_Witness ==
    /\ edit.op = "SetPoint"
    /\ SetNode.Cmd = "h"
    /\ Len(Data) > SetNode.Idx + 1
    /\ Data[SetNode.Idx + 1] # preData[SetNode.Idx + 1]
    /\ Data[SetNode.Idx + 2] = preData[SetNode.Idx + 2]

-----------------------------------------------------------------------------
(* PathNodeSetOnePoint called with any index (SpecCall)                    *)

\* how a call of PathNodeSetOnePoint ends: the loop starts at i = pidx and
\* tests i < len(pts) before it reads pts[i], so an index at or past the
\* end runs no iteration and the call returns, while a negative index
\* passes the test and pts[i] panics (index out of range) before any
\* write
SetOnePointOutcome(pts, pidx) ==
    IF pidx < Len(pts) /\ pidx < 0 THEN "panic" ELSE "returned"

\* one call of PathNodeSetOnePoint with an index in or out of range
CallSetOnePoint(pidx, dv) ==
    /\ edit.op = "none"
    /\ Data' = IF SetOnePointOutcome(PathNodes, pidx) = "panic"
               THEN Data
               ELSE PathNodeSetOnePoint(Data, PathNodes, pidx, dv)
    /\ preData' = Data
    /\ edit' = [op |-> SetOnePointOutcome(PathNodes, pidx), idx |-> pidx,
                arg |-> dv, redone |-> FALSE]
    /\ UNCHANGED <<PathNodes, preNodes, snapVars, manipVars>>

NextCall == \E i \in (-1)..MaxPts, d \in Deltas : CallSetOnePoint(i, d)

SpecCall == InitPath /\ [][NextCall]_vars

\* the call that has just ended had an index outside the decomposition
OutOfRange == edit.op # "none" /\ (edit.idx < 0 \/ edit.idx >= Len(PathNodes))

\* C17: PathNodeSetOnePoint called with a node index outside the current
\* decomposition (index < 0 or index >= number of nodes) is a precondition
\* failure that is fatal to that call; it does not complete silently, and
\* it never writes to the path data.
C17_OutOfRangeIsFatal == OutOfRange => (edit.op = "panic" /\ Data = preData)

-----------------------------------------------------------------------------
(* Standard drawing sizes (physize.go) and the specification SpecSize      *)

\* StdSizesMap: the size values of each standard size
StdSizesMap ==
    [k \in {"Img1280x720", "Img1920x1080", "Img3840x2160", "Img7680x4320",
            "Img1024x768", "Img720x480", "Img640x480", "Img320x240", "A4",
            "USLetter", "USLegal", "A0", "A1", "A2", "A3", "A5", "A6", "A7",
            "A8", "A9", "A10"} |->
        CASE k = "Img1280x720"  -> [Units |-> "Px", X |-> 1280, Y |-> 720]
          [] k = "Img1920x1080" -> [Units |-> "Px", X |-> 1920, Y |-> 1080]
          [] k = "Img3840x2160" -> [Units |-> "Px", X |-> 3840, Y |-> 2160]
          [] k = "Img7680x4320" -> [Units |-> "Px", X |-> 7680, Y |-> 4320]
          [] k = "Img1024x768"  -> [Units |-> "Px", X |-> 1024, Y |-> 768]
          [] k = "Img720x480"   -> [Units |-> "Px", X |-> 720, Y |-> 480]
          [] k = "Img640x480"   -> [Units |-> "Px", X |-> 640, Y |-> 480]
          [] k = "Img320x240"   -> [Units |-> "Px", X |-> 320, Y |-> 240]
          [] k = "A4"           -> [Units |-> "Mm", X |-> 210, Y |-> 297]
          [] k = "USLetter"     -> [Units |-> "Pt", X |-> 612, Y |-> 792]
          [] k = "USLegal"      -> [Units |-> "Pt", X |-> 612, Y |-> 1008]
          [] k = "A0"           -> [Units |-> "Mm", X |-> 841, Y |-> 1189]
          [] k = "A1"           -> [Units |-> "Mm", X |-> 594, Y |-> 841]
          [] k = "A2"           -> [Units |-> "Mm", X |-> 420, Y |-> 594]
          [] k = "A3"           -> [Units |-> "Mm", X |-> 297, Y |-> 420]
          [] k = "A5"           -> [Units |-> "Mm", X |-> 148, Y |-> 210]
          [] k = "A6"           -> [Units |-> "Mm", X |-> 105, Y |-> 148]
          [] k = "A7"           -> [Units |-> "Mm", X |-> 74, Y |-> 105]
          [] k = "A8"           -> [Units |-> "Mm", X |-> 52, Y |-> 74]
          [] k = "A9"           -> [Units |-> "Mm", X |-> 37, Y |-> 52]
          [] k = "A10"          -> [Units |-> "Mm", X |-> 26, Y |-> 37]]

\* a variant that compares the given orientation only
MatchStdSize_GivenOrientation(wd, ht, un) ==
    LET trgl == [Units |-> un, X |-> wd, Y |-> ht]
        hits == {k \in DOMAIN StdSizesMap : StdSizesMap[k] = trgl}
    IN  IF hits = {} THEN {"CustomSize"} ELSE hits

\* MatchStdSize: the values the call can return.  The loop ranges over a
\* Go map, whose iteration order is unspecified, and returns the first key
\* whose values equal the target in either orientation: any matching key
\* can be the one returned; CustomSize when there is none.
MatchStdSize(wd, ht, un) ==
    LET trgl == [Units |-> un, X |-> wd, Y |-> ht]
        trgp == [Units |-> un, X |-> ht, Y |-> wd]
        hits == {k \in DOMAIN StdSizesMap :
                    StdSizesMap[k] = trgl \/ StdSizesMap[k] = trgp}
    IN  IF hits = {} THEN {"CustomSize"} ELSE hits

\* the widths and heights given: every value of the table, and two values
\* that are not in it
SizeVals ==
    {StdSizesMap[k].X : k \in DOMAIN StdSizesMap}
        \cup {StdSizesMap[k].Y : k \in DOMAIN StdSizesMap} \cup {0, 100}

\* the units given: those of the table and one more
SizeUnits == {"Px", "Mm", "Pt", "In"}

InitSize ==
    /\ Data = <<>>
    /\ PathNodes = <<>>
    /\ preData = <<>>
    /\ preNodes = <<>>
    /\ edit = NoEdit
    /\ snapArgs \in SizeVals \X SizeVals \X SizeUnits
    /\ snapRes = "none"
    /\ Prefs = DefaultPrefs
    /\ sv = InitSv
    /\ drag = NoDrag
    /\ Siblings = <<>>

\* one call of MatchStdSize (from PhysSize.SetFromSVG)
CallMatchStdSize ==
    /\ snapRes = "none"
    /\ snapRes' \in MatchStdSize(snapArgs[1], snapArgs[2], snapArgs[3])
    /\ UNCHANGED <<pathVars, snapArgs, Prefs, manipVars>>

NextSize == CallMatchStdSize

SpecSize == InitSize /\ [][NextSize]_vars

\* the call's input equals the values of standard size s, as given or
\* with width and height exchanged
MatchesEntry(s) ==
    /\ snapArgs[3] = StdSizesMap[s].Units
    /\ \/ snapArgs[1] = StdSizesMap[s].X /\ snapArgs[2] = StdSizesMap[s].Y
       \/ snapArgs[1] = StdSizesMap[s].Y /\ snapArgs[2] = StdSizesMap[s].X

\* C18: MatchStdSize(w, h, units) returns standard size s whenever
\* (w, h, units) equals the StdSizesMap values of s in either orientation
\* (so matching the values of s returns s itself: no two entries match the
\* same input), and returns the fallback CustomSize for every input that
\* matches no entry.
C18_MatchStdSize ==
    snapRes # "none" =>
        /\ \A s \in DOMAIN StdSizesMap : MatchesEntry(s) => snapRes = s
        /\ (\A s \in DOMAIN StdSizesMap : ~MatchesEntry(s)) => snapRes = "CustomSize"

\* A4 was matched from its values with width and height exchanged
C18_Witness == snapArgs = <<297, 210, "Mm">> /\ snapRes = "A4"

-----------------------------------------------------------------------------
(* Gathering of the alignment candidates (under Spec)                      *)

\* C19: in every manipulation of kind move, resize or rotate, the
\* alignment candidates are gathered exactly once, on the first
\* pointer-move event of the drag (when no action is active), and are not
\* gathered again on any later event of the same drag.
C19_GatherOncePerDrag ==
    (drag.ctl \in {"Move", "Reshape", "Rotate"} /\ drag.moves > 0) =>
        /\ Count("GatherAlignPoints") = 1
        /\ First("GatherAlignPoints") < First("GoManipUpdate")

-----------------------------------------------------------------------------
(* Grid snapping in SnapCurBBox: move drags on a grid of 2 pixels          *)
(* (SpecGrid)                                                              *)

InitGrid ==
    /\ Data = NodePath
    /\ PathNodes = PathNodesOf(Data)
    /\ preData = <<>>
    /\ preNodes = <<>>
    /\ edit = NoEdit
    /\ snapArgs = <<0, 0, 0>>
    /\ snapRes = "none"
    /\ Prefs \in {[DefaultPrefs EXCEPT !.SnapTol = 1, !.Grid = 2,
                                       !.SnapGuide = g, !.SnapGrid = r] :
                     g \in BOOLEAN, r \in BOOLEAN}
    /\ sv = UpdateNodeSprites(InitSv, Len(PathNodesOf(NodePath)))
    /\ drag = NoDrag
    /\ Siblings = <<SiblingBBox>>

NextGrid ==
    \/ \E bb \in SelBBoxes : PressSel("Move", "none", bb)
    \/ \E d \in DragDeltas : DragMoveEvent(d)
    \/ \E sel \in Sels : ReleaseSel(sel)

SpecGrid == InitGrid /\ [][NextGrid]_vars

\* whether the SnapCurBBox of the last move event snapped to a guide: the
\* closest candidate is within the tolerance of its anchor
GuideSnapped ==
    LET cl == Closest(SnapCands(sv.es, 1))
    IN  Prefs.SnapGuide /\ SnapToPt(cl[3], cl[2], GridDots)[2]

\* the box of the last move event moved by the guide snap alone
GuideSnapBox ==
    LET cl == Closest(SnapCands(sv.es, 1))
    IN  MoveDelta(cl[1], sv.es.DragSelCurBBox, cl[2] - cl[3])

\* point v is on the grid (the grid offset is 0)
OnGrid(v) == v[1] % GridDots = 0 /\ v[2] % GridDots = 0

\* C20: in SnapCurBBox, when SnapGrid is enabled and no alignment-guide
\* snap occurred, the effective bbox position is snapped to the grid
\* increment; when a guide snap occurred no grid snap is applied.
C20_GridSnap ==
    (drag.ctl = "Move" /\ drag.moves > 0) =>
        /\ (Prefs.SnapGrid /\ ~GuideSnapped) => OnGrid(sv.es.DragSelEffBBox.Min)
        /\ GuideSnapped => sv.es.DragSelEffBBox = GuideSnapBox

-----------------------------------------------------------------------------
(* The guide snap of SnapCurBBox (under Spec)                              *)

\* the candidates of all six anchors: pairs <<anchor, value>>
GuideCands ==
    UNION {{<<BBoxPointsOrder[a], sv.es.AlignPts[BBoxPointsOrder[a]][k]>> :
                k \in 1..Len(sv.es.AlignPts[BBoxPointsOrder[a]])} : a \in 1..6}

\* the distance of candidate c to its own anchor's coordinate of the raw box
CandDist(c) == Abs(c[2] - ValBox(c[1], sv.es.DragSelCurBBox))

\* the tolerance of the guide snap: SnapTol * grid increment
GuideTol == Prefs.SnapTol * GridDots

\* a move or reshape event has just run SnapCurBBox
AfterSnapCurBBox == drag.ctl \in {"Move", "Reshape"} /\ drag.moves > 0

\* C21: SnapCurBBox considers the candidates of all six anchors together
\* and snaps to at most one of them, the candidate with the smallest
\* distance to its own anchor's coordinate of the raw bbox; the effective
\* bbox is shifted (by candidate minus anchor value) only if that distance
\* is below SnapTol * grid increment, and otherwise, or when guide snapping
\* is disabled, the effective bbox equals the raw dragged bbox.
C21_GlobalNearestSnap ==
    AfterSnapCurBBox =>
        LET raw == sv.es.DragSelCurBBox
            eff == sv.es.DragSelEffBBox
            near == \E c \in GuideCands : CandDist(c) < GuideTol
        IN  /\ (Prefs.SnapGuide /\ near) =>
                  \E c \in GuideCands :
                      /\ \A c2 \in GuideCands : CandDist(c) <= CandDist(c2)
                      /\ eff = MoveDelta(c[1], raw, c[2] - ValBox(c[1], raw))
            /\ (~Prefs.SnapGuide \/ ~near) => eff = raw

\* a move event snapped the box to a guide that is not the nearest in
\* the loop's first anchor: the effective box differs from the raw box
C21_Witness ==
    /\ AfterSnapCurBBox
    /\ Prefs.SnapGuide
    /\ sv.es.DragSelEffBBox # sv.es.DragSelCurBBox
    /\ \E c \in GuideCands : c[1] # "BBLeft" /\ CandDist(c) < GuideTol
    /\ \A c \in GuideCands : c[1] = "BBLeft" => CandDist(c) >= GuideTol

-----------------------------------------------------------------------------
(* The frame of one reshape event (under SpecReshape)                      *)

BoxCoords == {"min.x", "min.y", "max.x", "max.y"}

\* the coordinates of the box that belong to handle sp
HandleCoords(sp) ==
    CASE sp = "SizeUpL" -> {"min.x", "min.y"}
      [] sp = "SizeUpM" -> {"min.y"}
      [] sp = "SizeUpR" -> {"min.y", "max.x"}
      [] sp = "SizeDnL" -> {"min.x", "max.y"}
      [] sp = "SizeDnM" -> {"max.y"}
      [] sp = "SizeDnR" -> {"max.x", "max.y"}
      [] sp = "SizeLfC" -> {"min.x"}
      [] sp = "SizeRtC" -> {"max.x"}

\* coordinate c of box bb
Coord(bb, c) ==
    CASE c = "min.x" -> bb.Min[1]
      [] c = "min.y" -> bb.Min[2]
      [] c = "max.x" -> bb.Max[1]
      [] c = "max.y" -> bb.Max[2]

\* coordinate c of DragSelCurBBox with the delta d (pixels) of handle sp
\* added to the handle's coordinates
HandleMoved(sp, d, c) ==
    Coord(sv.es.DragSelCurBBox, c)
        + (IF c \notin HandleCoords(sp) THEN 0
           ELSE IF c \in {"min.x", "max.x"} THEN Px(d[1]) ELSE Px(d[2]))

\* the box with the handle moved is at least one pixel wide and high
KeepsExtent(sp, d) ==
    /\ HandleMoved(sp, d, "min.x") <= HandleMoved(sp, d, "max.x") - Px(1)
    /\ HandleMoved(sp, d, "min.y") <= HandleMoved(sp, d, "max.y") - Px(1)

\* coordinate c of DragSelCurBBox is the same after the step
SameCoord(c) == Coord(sv.es.DragSelCurBBox, c)' = Coord(sv.es.DragSelCurBBox, c)

\* C22 as stated: for each of the 8 resize handles and every delta, one
\* SpriteReshapeDrag event changes only that handle's coordinates of
\* DragSelCurBBox and leaves the other coordinates of the box unchanged.
C22_AnyDelta ==
    [][\A sp \in Sprites, d \in ReshapeDeltas :
          (drag.sp = sp /\ ReshapeEvent(d))
              => \A c \in BoxCoords \ HandleCoords(sp) : SameCoord(c)]_vars

\* C22 amended: one SpriteReshapeDrag event adds the delta to the handle's
\* coordinates and never changes a max coordinate that is not the
\* handle's; when the box with the handle moved is at least one pixel wide
\* and high, every coordinate is the one with the delta added, so the
\* coordinates that are not the handle's are unchanged.
C22_HandleFrame ==
    [][\A sp \in Sprites, d \in ReshapeDeltas :
          (drag.sp = sp /\ ReshapeEvent(d))
              => /\ \A c \in {"max.x", "max.y"} :
                        Coord(sv.es.DragSelCurBBox, c)' = HandleMoved(sp, d, c)
                 /\ KeepsExtent(sp, d) =>
                        \A c \in BoxCoords :
                            Coord(sv.es.DragSelCurBBox, c)' = HandleMoved(sp, d, c)]_vars

\* the upper middle handle of the box (0,0)-(100,50) dragged by (10,10):
\* only min.y has changed
C22_Witness ==
    /\ drag.ctl = "Reshape" /\ drag.sp = "SizeUpM" /\ drag.moves = 1
    /\ sv.es.DragSelStartBBox = PxBox(0, 0, 100, 50)
    /\ sv.es.DragSelCurBBox = PxBox(0, 10, 100, 50)

-----------------------------------------------------------------------------
(* The pivot of the rotate drags (under SpecRot)                           *)

\* the handles at the corners and at the edge midpoints of the box
CornerHandles == {"SizeUpL", "SizeUpR", "SizeDnL", "SizeDnR"}
MidHandles == {"SizeUpM", "SizeDnM", "SizeLfC", "SizeRtC"}

\* the position of corner handle sp on box bb
CornerOf(sp, bb) ==
    CASE sp = "SizeUpL" -> <<bb.Min[1], bb.Min[2]>>
      [] sp = "SizeUpR" -> <<bb.Max[1], bb.Min[2]>>
      [] sp = "SizeDnL" -> <<bb.Min[1], bb.Max[2]>>
      [] sp = "SizeDnR" -> <<bb.Max[1], bb.Max[2]>>

\* the corner diagonally opposite to corner handle sp, and the corner at
\* the other end of the horizontal edge of sp
OppositeCorner(sp) ==
    CASE sp = "SizeUpL" -> "SizeDnR"
      [] sp = "SizeUpR" -> "SizeDnL"
      [] sp = "SizeDnL" -> "SizeUpR"
      [] sp = "SizeDnR" -> "SizeUpL"
AcrossCorner(sp) ==
    CASE sp = "SizeUpL" -> "SizeUpR"
      [] sp = "SizeUpR" -> "SizeUpL"
      [] sp = "SizeDnL" -> "SizeDnR"
      [] sp = "SizeDnR" -> "SizeDnL"

BoxCenter(bb) == <<(bb.Min[1] + bb.Max[1]) \div 2, (bb.Min[2] + bb.Max[2]) \div 2>>

\* the pivot of the rotation applied to the selection, in window coordinates
AppliedPivot == VAdd(sv.Geom[SelectedNamesString].pt, PxV(SvOff))

\* C23 as stated: in SpriteRotateDrag the rotation pivot of each of the
\* four corner handles is the opposite corner of the drag-start bbox, and
\* the pivot of each of the four edge-midpoint handles is the center of the
\* drag-start bbox.
C23_OppositeCornerPivot ==
    Rotated =>
        /\ drag.sp \in CornerHandles =>
              AppliedPivot = CornerOf(OppositeCorner(drag.sp), sv.es.DragSelStartBBox)
        /\ drag.sp \in MidHandles => AppliedPivot = BoxCenter(sv.es.DragSelStartBBox)

\* C23 amended: the pivot of each corner handle is the corner at the other
\* end of the same horizontal edge of the drag-start bbox (top-left and
\* top-right pivot about each other, and so do bottom-left and
\* bottom-right), and the pivot of each edge-midpoint handle is the center
\* of the drag-start bbox.
C23_AcrossCornerPivot ==
    Rotated =>
        /\ drag.sp \in CornerHandles =>
              AppliedPivot = CornerOf(AcrossCorner(drag.sp), sv.es.DragSelStartBBox)
        /\ drag.sp \in MidHandles => AppliedPivot = BoxCenter(sv.es.DragSelStartBBox)

\* the upper left handle of the box (0,0)-(1,2) was dragged: the rotation
\* is about the upper right corner (1,0)
C23_Witness ==
    /\ Rotated
    /\ drag.sp = "SizeUpL"
    /\ sv.es.DragSelStartBBox = PxBox(0, 0, 1, 2)
    /\ AppliedPivot = PxV(<<1, 0>>)

-----------------------------------------------------------------------------
(* Move drags with the deltas of their events recorded (SpecMove)          *)

\* the deltas of the move events of a move drag, in pixels: a total of
\* (2, 2) is reached in one event and in two
MoveDeltas == {<<1, 1>>, <<2, 2>>, <<-2, 0>>, <<3, 1>>}

\* one pointer-move event of a move drag: DragMove, with the delta of the
\* event added to the history
MoveInput(delta) ==
    /\ CanMove("Move")
    /\ sv' = Log(DragMove(sv, delta), "delta", delta)
    /\ drag' = Moved
    /\ UNCHANGED <<pathVars, snapVars, Siblings>>

NextMove ==
    \/ \E bb \in SelBBoxes : PressSel("Move", "none", bb)
    \/ \E d \in MoveDeltas : MoveInput(d)
    \/ \E sel \in Sels : ReleaseSel(sel)

SpecMove == InitManip /\ [][NextMove]_vars

\* the sum of the deltas of the move events of the history from step i on
RECURSIVE SumDeltas(_, _)
SumDeltas(tr, i) ==
    IF i > Len(tr) THEN Zero2
    ELSE IF tr[i][1] = "delta" THEN VAdd(tr[i][2], SumDeltas(tr, i + 1))
         ELSE SumDeltas(tr, i + 1)

\* the snap of the last move event has shifted nothing
NoSnapShift == sv.es.DragSelEffBBox = sv.es.DragSelCurBBox

\* C24: within one move drag in which snapping shifts nothing, after any
\* sequence of DragMove events with deltas d1..dn every selected element's
\* geometry equals its InitGeom translated by d1+...+dn (each event
\* re-reads InitGeom and applies the total translation), so the result
\* depends only on the total delta and not on its split into events.
\* Checked with the weaker hypothesis that the last event's snap shifted
\* nothing.
C24_TotalTranslation ==
    (drag.ctl = "Move" /\ drag.moves > 0 /\ NoSnapShift) =>
        \A itm \in Selected :
            /\ sv.Geom[itm].del = PxV(SumDeltas(sv.Trace, 1))
            /\ sv.Geom[itm].scNum = sv.Geom[itm].scDen
            /\ sv.Geom[itm].rot = 0

\* a move drag of two events of (1, 1) each, without a snap shift: the
\* selection is translated by (2, 2)
C24_Witness ==
    /\ drag.ctl = "Move" /\ drag.moves = 2 /\ NoSnapShift
    /\ Count("delta") = 2
    /\ \A i \in 1..Len(sv.Trace) : sv.Trace[i][1] = "delta" => sv.Trace[i][2] = <<1, 1>>
    /\ sv.Geom[SelectedNamesString].del = PxV(<<2, 2>>)

-----------------------------------------------------------------------------
(* Calls of UpdateNodeSprites and RemoveNodeSprites in any order, for      *)
(* selected paths of different node counts (SpecNodes)                     *)

\* greatest number of nodes of a selected path
MaxNodes == 4

\* the data of the paths of exactly n nodes that can be selected: a move
\* command, then relative line and absolute horizontal commands
RECURSIVE NodePathsOf(_)
NodePathsOf(n) ==
    IF n = 1
    THEN {<<CmdElem(c, 2)>> \o PtElems(c, o) : c \in MoveCmds, o \in StartOperands}
    ELSE {AddPoint(d, c, o, j) :
            d \in NodePathsOf(n - 1), c \in {"l", "H"}, o \in Operands, j \in BOOLEAN}

\* the paths that can be selected: of no node, and of every number of
\* nodes up to MaxNodes
SelPaths == {<<>>} \cup UNION {NodePathsOf(n) : n \in 1..MaxNodes}

InitNodes ==
    /\ Data = <<>>
    /\ PathNodes = <<>>
    /\ preData = <<>>
    /\ preNodes = <<>>
    /\ edit = NoEdit
    /\ snapArgs = <<0, 0, 0>>
    /\ snapRes = "none"
    /\ Prefs = DefaultPrefs
    /\ sv = InitSv
    /\ drag = NoDrag
    /\ Siblings = <<>>

\* sv.UpdateNodeSprites() with path the data of the first selected path
UpdateNodeSpritesCall(path) ==
    /\ sv' = [UpdateNodeSprites(sv, Len(PathNodesOf(path)))
                 EXCEPT !.es.PathCmds = PathCmdsOf(path),
                        !.es.ActivePath = ActivePathNm]
    /\ PathNodes' = PathNodesOf(path)
    /\ Data' = path
    /\ edit' = [NoEdit EXCEPT !.op = "UpdateNodeSprites", !.idx = Len(PathNodesOf(path))]
    /\ UNCHANGED <<preData, preNodes, snapVars, drag, Siblings>>

\* sv.UpdateNodeSprites() when es.FirstSelectedPath() is nil: the call of
\* RemoveNodeSprites (the history has the node count -1)
UpdateNodeSpritesNoPath ==
    /\ sv' = RemoveNodeSprites(sv)
    /\ PathNodes' = <<>>
    /\ Data' = <<>>
    /\ edit' = [NoEdit EXCEPT !.op = "UpdateNodeSprites", !.idx = -1]
    /\ UNCHANGED <<preData, preNodes, snapVars, drag, Siblings>>

\* sv.RemoveNodeSprites(win)
RemoveNodeSpritesCall ==
    /\ sv' = RemoveNodeSprites(sv)
    /\ PathNodes' = <<>>
    /\ edit' = [NoEdit EXCEPT !.op = "RemoveNodeSprites"]
    /\ UNCHANGED <<Data, preData, preNodes, snapVars, drag, Siblings>>

NextNodes ==
    \/ \E path \in SelPaths : UpdateNodeSpritesCall(path)
    \/ UpdateNodeSpritesNoPath
    \/ RemoveNodeSpritesCall

SpecNodes == InitNodes /\ [][NextNodes]_vars

\* the indexes of the node-point sprites of the window that are active
ActiveNodeSprites ==
    {sv.Win[i].Props.idx : i \in {j \in 1..Len(sv.Win) :
        SpriteProps(sv.Win[j]) = "SpNodePoint" /\ sv.Win[j].On}}

\* C25: after every UpdateNodeSprites or RemoveNodeSprites call, in any
\* order and for selected paths of any node counts (including no selected
\* path), NNodeSprites equals the length of PathNodes and the active
\* node-point sprites are exactly those with index 0..NNodeSprites-1; node
\* sprites left from an earlier, longer path are inactive, and with no
\* selected path PathNodes, PathCmds and ActivePath are all cleared.
C25_NodeSpritesInSync ==
    /\ sv.es.NNodeSprites = Len(PathNodes)
    /\ ActiveNodeSprites = 0..(sv.es.NNodeSprites - 1)
    /\ (edit.op = "UpdateNodeSprites" /\ edit.idx = -1) =>
          /\ PathNodes = <<>>
          /\ sv.es.PathCmds = <<>>
          /\ sv.es.ActivePath = ""

\* a path of one node was selected after a path of three: the sprites of
\* the nodes 1 and 2 are left in the window, inactive
C25_Witness ==
    /\ edit.op = "UpdateNodeSprites"
    /\ sv.es.NNodeSprites = 1
    /\ Len(sv.Win) = 3
    /\ ActiveNodeSprites = {0}
    /\ sv.es.ActivePath = ActivePathNm

-----------------------------------------------------------------------------
(* The repaint request of ManipDone (under SpecUpd)                        *)

\* position of the last step of the history that is one of steps, 0 when
\* there is none
LastOf(steps) ==
    LET at == {i \in 1..Len(sv.Trace) : sv.Trace[i][1] \in steps}
    IN  IF at = {} THEN 0 ELSE CHOOSE i \in at : \A j \in at : j <= i

\* the steps that change the geometry of the document
Mutations == {"ApplyDeltaXForm", "PathNodeSetPoint"}

\* the drag has been released: ManipDone has run and no press has followed
Released == drag.ctl = "none" /\ Count("ManipDone") > 0

\* the ManipUpdate goroutines of the last drag: one per move event, the
\* last ones of Upd
DragUpds == {i \in 1..Len(sv.Upd) : i > Len(sv.Upd) - Count("GoManipUpdate")}

====
